---- MODULE Spec2Model ----
(***************************************************************************)
(* Attribution engine of TupleMeasure_ICQA: minimal-hitting-set            *)
(* responsibility (measures/rim.py, compute_icqa_resp.py), Shapley values  *)
(* (compute_icqa_shap.py), the provenance sum (compute_icqa_prov.py) and   *)
(* the constant-weight measure CBM (measures/cbm.py).                      *)
(*                                                                         *)
(* rho and the RIM contributions are modelled as exact fractions           *)
(* [num, den]; rounding is not modelled there.  The Shapley values phi     *)
(* are modelled as IEEE-754 binary64 numbers, bit for bit, with            *)
(* round-to-nearest-even division and addition.                            *)
(***************************************************************************)
EXTENDS Integers, Sequences, FiniteSets, TLC

VARIABLES
    unit,           \* which routine this run executes: "solve" | "rim" | "resp" | "shap" | "approx" | "vmask" | "cbm" | "prov"
                    \* | "cim" | "pim" | "respmain" | "shapmain" | "rimcall" | "respcall" | "shapseq"
                    \* | "order" | "greedy"
    pc,             \* position inside the routine
    mis_list,       \* rim: the MIS list of one DC, each entry as set(iter_mis_tuples(mis))
    universe,       \* rim: union of the non-empty MIS (set of TupleKeys)
    node_id,        \* rim: TupleKey -> int id
    edges_ids,      \* rim: the edges over int ids
    enable_cache,   \* rim: the enable_cache argument
    cache,          \* rim: sig -> <<g, st>>
    gamma_details,  \* rim: TupleKey -> GammaResult
    solver_log,     \* rim: TupleKey -> what greedy and CP-SAT did for that tuple (history)
    rho,            \* rim / resp: TupleKey -> fraction
    rim_contrib,    \* rim: the returned per-tuple contributions
    sup_ans,        \* resp: the answer's support sets, in support_id (groupby) order
    uniq_tuples,    \* resp: tuple ids in order of first appearance
    tid2idx,        \* resp: tuple id -> index
    support_sets,   \* resp: the support sets over indices
    edges_arg,      \* solve: the edges argument
    ub_arg,         \* solve: the upper_bound argument, {} for None, {ub} otherwise
    solve_result,   \* solve: the returned <<size, status>>, <<>> before the call
    shap_sets,      \* shap: the support_sets argument (index sets)
    shap_n,         \* shap: the universe size n
    num_samples,    \* shap: approx_shapley's num_samples
    mode,           \* shap: "exact" | "approx" | "zero", "" before the dispatch
    v_mask,         \* shap: exact_shapley's v_mask, entry mask + 1 for coalition mask
    shap_t,         \* shap: exact_shapley's loop variable t
    counts,         \* shap: approx_shapley's counts, entry idx + 1 for element idx
    samples_done,   \* shap: permutations sampled so far
    last_walk,      \* shap: the last permutation and what its walk did (history)
    phi,            \* shap: the returned list, entry t + 1 for element t
    dcs,            \* cbm: the constraint list; entry i stands for the name "DCi"
    dc_i,           \* cbm: constraints of dcs done with
    mis_read,       \* cbm: witness sets of the current file iterated so far
    items_read,     \* cbm: items of the current pks list iterated so far
    tuples_for_dc,  \* cbm: the set tuples_for_dc
    score,          \* cbm: the defaultdict score, as a function on its keys
    named_now,      \* cbm: the tuples the items read from the current file name (history)
    seen_by_dc,     \* cbm: per constraint done with, the tuples its file named (history)
    repeated,       \* cbm: tuples named more than once in the last file read (history)
    support_df,     \* aggregators: the support rows of one query, [answer_id, support_id, tuple]
    tm_db,          \* aggregators: the measure rows of the database, [tuple, measure, value]
    measured,       \* prov: the merged rows that have a measure
    sum_wide,       \* prov: the pivot, answer_id -> measure -> {sum} ({} is NaN)
    all_rows,       \* prov: the output rows appended so far
    w_dcs,          \* cim / pim: the constraint list dcs, as names
    w_i,            \* cim / pim: constraints of dcs done with
    w_score,        \* cim / pim: the defaultdict score, as a function on its keys
    files_read,     \* cim / pim: per constraint done with, tuple -> witness sets of its
                    \* file that hold the tuple (history)
    tasks,          \* shap main: the answers of the task list, ascending
    agg_i,          \* resp / shap main: answers of the loop done with
    agg_orders,     \* resp / shap main: uniq_tuples of the answers done with (history)
    resp_rows,      \* resp main: the output rows, [answer_id, icqa]
    shap_rows,      \* shap main: the output rows, [answer_id, icqa]
    time_limit,     \* timed call: {b} for a limit of b ticks, {} for a call without limit
    elapsed,        \* timed call: ticks since the solver was started
    call_k,         \* timed call: min_hitting_set_size_for_t's loop variable k
    rng_draws,      \* shap main: permutations drawn so far from main's generator rng
    seq_i,          \* shap main: sampled answers done with
    seq_cur,        \* shap main: the answer in approx_shapley, [n, sets]
    seq_counts,     \* shap main: counts of the running approx_shapley call
    seq_samples,    \* shap main: permutations sampled by the running call
    seq_first,      \* shap main: the first answer and its phi, [n, sets, phi] (history)
    seq_done,       \* shap main: the last answer done with and its phi (history)
    ord_sets,       \* two row orders: the answer's support sets by support_id, per run
    ord_ut,         \* two row orders: uniq_tuples, per run
    ord_counts,     \* two row orders: approx_shapley's counts, per run
    ord_samples,    \* two row orders: permutations sampled so far
    ord_w,          \* two row orders: the weights by tuple id, per engine and run
    g_edges,        \* greedy: the edges argument of greedy_hitting_set_size
    uncovered,      \* greedy: the list uncovered
    g_size,         \* greedy: the counter size
    picked          \* greedy: the elements best_u of the rounds so far (history)

inputVars == <<unit, mis_list, enable_cache, sup_ans, uniq_tuples, edges_arg, ub_arg>>
rimVars == <<universe, node_id, edges_ids, cache, gamma_details, rim_contrib>>
respVars == <<tid2idx, support_sets>>

\* The responsibility engine's variables other than pc.
hitData == <<inputVars, rimVars, respVars, solver_log, rho, solve_result>>

hitVars == <<hitData, pc>>

shapVars == <<shap_sets, shap_n, num_samples, mode, v_mask, shap_t, counts,
              samples_done, last_walk, phi>>

cbmVars == <<dcs, dc_i, mis_read, items_read, tuples_for_dc, score, named_now, seen_by_dc,
             repeated>>

provVars == <<support_df, tm_db, measured, sum_wide, all_rows>>

weightVars == <<w_dcs, w_i, w_score, files_read>>

aggVars == <<tasks, agg_i, agg_orders, resp_rows, shap_rows>>

timeVars == <<time_limit, elapsed, call_k>>

\* The variables of the routines modelled after the aggregators.
seqVars == <<rng_draws, seq_i, seq_cur, seq_counts, seq_samples, seq_first, seq_done>>

ordVars == <<ord_sets, ord_ut, ord_counts, ord_samples, ord_w>>

greedyVars == <<g_edges, uncovered, g_size, picked>>

laterVars == <<timeVars, seqVars, ordVars, greedyVars>>

\* The variables of the routines modelled after the first four.
restVars == <<weightVars, aggVars, laterVars>>

\* The variables the responsibility engine leaves alone.
nonHitVars == <<shapVars, cbmVars, provVars, restVars>>

\* The variables the Shapley engine leaves alone, pc apart.
nonShapData == <<hitData, cbmVars, provVars, restVars>>

\* The variables compute_cbm leaves alone, pc apart.
nonCbmData == <<hitData, shapVars, provVars, restVars>>

\* The variables the provenance aggregator leaves alone, pc apart.
nonProvData == <<hitData, shapVars, cbmVars, restVars>>

\* The variables compute_cim and compute_pim leave alone, pc apart.
nonWeightData == <<hitData, shapVars, cbmVars, provVars, aggVars, laterVars>>

\* The variables the responsibility and Shapley aggregators leave alone, pc and their
\* input tables apart.
nonAggData == <<hitData, shapVars, cbmVars, measured, sum_wide, all_rows, weightVars,
                laterVars>>

\* The variables a timed solver call leaves alone.
nonTimedData == <<mis_list, enable_cache, sup_ans, uniq_tuples, rimVars, respVars,
                  solver_log, rho, shapVars, cbmVars, provVars, weightVars, aggVars,
                  seqVars, ordVars, greedyVars>>

\* The variables main's loop over sampled answers leaves alone, pc apart.
nonSeqData == <<hitData, shapVars, cbmVars, provVars, weightVars, aggVars, timeVars,
                ordVars, greedyVars, unit>>

\* The variables the two runs on one answer leave alone, pc apart.
nonOrdData == <<hitData, shapVars, cbmVars, provVars, weightVars, aggVars, timeVars,
                seqVars, greedyVars, unit>>

vars == <<hitVars, shapVars, cbmVars, provVars, restVars>>

----------------------------------------------------------------------------
\* Bounds of the model.

\* TupleKeys are 1..MaxTuples, ordered as Python orders (relation, pk) tuples.
MaxTuples == 3
\* Longest enumerated list of witness sets.
MaxMis == 2

TupleKeys == 1..MaxTuples

----------------------------------------------------------------------------
\* Generic helpers (no counterpart in the source).

Range(s) == {s[i] : i \in DOMAIN s}

RECURSIVE SetSum(_, _)
SetSum(S, f) ==
    IF S = {} THEN 0
    ELSE LET x == CHOOSE y \in S : TRUE IN f[x] + SetSum(S \ {x}, f)

SetMin(S) == CHOOSE x \in S : \A y \in S : x <= y

RECURSIVE Pow2(_)
Pow2(i) == IF i = 0 THEN 1 ELSE 2 * Pow2(i - 1)

RECURSIVE Gcd(_, _)
Gcd(a, b) == IF b = 0 THEN a ELSE Gcd(b, a % b)

\* Exact fractions with positive denominator, kept in lowest terms.
Frac(n, d) == LET g == Gcd(IF n < 0 THEN -n ELSE n, d)
              IN  IF n = 0 THEN [num |-> 0, den |-> 1]
                  ELSE [num |-> n \div g, den |-> d \div g]
FracAdd(a, b) == Frac(a.num * b.den + b.num * a.den, a.den * b.den)
FracMul(a, b) == Frac(a.num * b.num, a.den * b.den)
FracDiv(a, b) == Frac(a.num * b.den, a.den * b.num)
FracLeq(a, b) == a.num * b.den <= b.num * a.den
FracInt(n) == [num |-> n, den |-> 1]

RECURSIVE FracSum(_, _)
FracSum(S, f) ==
    IF S = {} THEN FracInt(0)
    ELSE LET x == CHOOSE y \in S : TRUE IN FracAdd(f[x], FracSum(S \ {x}, f))

\* Ascending sort of the values f[x], x in S, with repetitions (Python's sorted()).
RECURSIVE SortedValues(_, _)
SortedValues(S, f) ==
    IF S = {} THEN <<>>
    ELSE LET x == CHOOSE y \in S : \A z \in S : f[y] <= f[z]
         IN  <<f[x]>> \o SortedValues(S \ {x}, f)

SubsetCode(S) == SetSum(S, [x \in S |-> Pow2(x)])

\* Lists of at most k sets drawn from Sets, one list per multiset (ordered by code).
CanonicalLists(Sets, k) ==
    {f \in UNION {[1..j -> Sets] : j \in 0..k} :
        \A i \in 1..(Len(f) - 1) : SubsetCode(f[i]) <= SubsetCode(f[i + 1])}

\* {1}, {2}, {1,3}, {2,3} is the smallest edge list whose greedy bound can exceed the
\* minimum (every frequency is 2; picking 3 first gives 3 against the minimum 2).
\* With the pair {4, 5} added, the tuples 4 and 5 both have it as their filtered
\* edges, so they share one signature.
GreedyGapFamily == <<{1}, {2}, {1, 3}, {2, 3}, {4, 5}>>

----------------------------------------------------------------------------
\* What "hitting set" means (the yardstick the claims are stated against).

IsHittingSet(X, edges) == \A i \in DOMAIN edges : X \cap edges[i] # {}

HittingSetSizes(edges, U) == {Cardinality(X) : X \in {Y \in SUBSET U : IsHittingSet(Y, edges)}}

\* The true minimum over universe U (defined when every edge is non-empty).
MinHittingSetSize(edges, U) == SetMin(HittingSetSizes(edges, U))

----------------------------------------------------------------------------
\* measures/rim.py

\* greedy_hitting_set_size: the set of sizes the loop can return.  Each round takes
\* an element of maximal frequency among the uncovered edges; which of several
\* maximal elements comes first in the freq dict depends on the order of the edges
\* and on set iteration order, so every maximal element is a possible pick.
Freq(u, unc) == Cardinality({i \in DOMAIN unc : u \in unc[i]})

RECURSIVE GreedyRounds(_)
GreedyRounds(unc) ==
    IF unc = <<>> THEN {0}
    ELSE LET nodes == UNION Range(unc)
             best  == {u \in nodes : \A w \in nodes : Freq(w, unc) <= Freq(u, unc)}
         IN  UNION {{1 + s : s \in GreedyRounds(SelectSeq(unc, LAMBDA e : u \notin e))}
                    : u \in best}

\* Mutant: the round that empties the list is not counted.
greedy_hitting_set_size_Undercount(edges) ==
    {IF s = 0 THEN 0 ELSE s - 1 : s \in GreedyRounds(SelectSeq(edges, LAMBDA e : e # {}))}

greedy_hitting_set_size(edges) == GreedyRounds(SelectSeq(edges, LAMBDA e : e # {}))

\* Mutant: the constraint of the last edge is never added.
CpsatFeasible_DropLastEdge(edges, upper_bound) ==
    {X \in SUBSET (UNION Range(edges)) :
        /\ \A i \in DOMAIN edges : (edges[i] # {} /\ i < Len(edges)) => X \cap edges[i] # {}
        /\ \A b \in upper_bound : Cardinality(X) <= b}

\* The assignments of the CP-SAT model: one Boolean per node, one constraint
\* sum(x[i] for i in e) >= 1 per non-empty edge, and obj <= upper_bound when given.
CpsatFeasible(edges, upper_bound) ==
    {X \in SUBSET (UNION Range(edges)) :
        /\ \A i \in DOMAIN edges : edges[i] # {} => X \cap edges[i] # {}
        /\ \A b \in upper_bound : Cardinality(X) <= b}

\* What solver.Solve(model) can end with under a time limit: the optimum proved, some
\* solution found, or nothing decided; an infeasible model is reported as such.
CpSolverOutcomes(edges, upper_bound) ==
    LET sizes == {Cardinality(X) : X \in CpsatFeasible(edges, upper_bound)}
    IN  IF sizes = {}
        THEN {[status |-> "INFEASIBLE", objective |-> 0], [status |-> "UNKNOWN", objective |-> 0]}
        ELSE {[status |-> "OPTIMAL", objective |-> SetMin(sizes)]}
             \cup {[status |-> "FEASIBLE", objective |-> k] : k \in sizes}
             \cup {[status |-> "UNKNOWN", objective |-> 0]}

\* Mutant: a solution found without proof of optimality is reported as OPTIMAL.
solve_min_hitting_set_size_cpsat_FeasibleAsOptimal(edges, upper_bound, outcome) ==
    IF edges = <<>> THEN <<0, "TRIVIAL">>
    ELSE IF outcome.status \in {"OPTIMAL", "FEASIBLE"} THEN <<outcome.objective, "OPTIMAL">>
    ELSE <<IF upper_bound # {} THEN CHOOSE b \in upper_bound : TRUE ELSE -1, "TIMEOUT">>

\* solve_min_hitting_set_size_cpsat, given how the solver ended.
solve_min_hitting_set_size_cpsat(edges, upper_bound, outcome) ==
    IF edges = <<>> THEN <<0, "TRIVIAL">>
    ELSE IF outcome.status = "OPTIMAL" THEN <<outcome.objective, "OPTIMAL">>
    ELSE IF outcome.status = "FEASIBLE" THEN <<outcome.objective, "FEASIBLE">>
    ELSE <<IF upper_bound # {} THEN CHOOSE b \in upper_bound : TRUE ELSE -1, "TIMEOUT">>

\* The outcomes to draw from for a call: the solver is not run on an empty list.
CallOutcomes(edges, upper_bound) ==
    IF edges = <<>> THEN {[status |-> "NOT_CALLED", objective |-> 0]}
    ELSE CpSolverOutcomes(edges, upper_bound)

build_hypergraph_from_mis(ml) ==
    LET edges == SelectSeq(ml, LAMBDA e : e # {})
    IN  [edges |-> edges, universe |-> UNION Range(edges)]

\* all_nodes = sorted(universe); node_id = {tk: i for i, tk in enumerate(all_nodes)}
NodeIds(U) ==
    LET all_nodes == SortedValues(U, [tk \in U |-> tk])
    IN  [tk \in U |-> (CHOOSE i \in 1..Len(all_nodes) : all_nodes[i] = tk) - 1]

\* edges_ids = [set(node_id[tk] for tk in e) for e in edges_tk]
EdgesIds(edges_tk, ids) == [i \in DOMAIN edges_tk |-> {ids[tk] : tk \in edges_tk[i]}]

\* Mutant: the edges that contain t are kept.
FilteredEdges_KeepAll(t) == edges_ids

\* filtered = [e for e in edges_ids if t_id not in e]
FilteredEdges(t) == LET t_id == node_id[t] IN SelectSeq(edges_ids, LAMBDA e : t_id \notin e)

\* hash(tuple(sorted(e))): CPython's tuple hash has no collision among the subsets of
\* a universe of this size (enumerated up to 18 nodes), so an injective code stands
\* for it.
EdgeHash(e) == SubsetCode(e)

\* Mutant: the signature is the number of filtered edges only.
EdgeSignature_LengthOnly(filtered) == <<Len(filtered)>>

\* sig = tuple(sorted(edge_hashes))
EdgeSignature(filtered) ==
    SortedValues(DOMAIN filtered, [i \in DOMAIN filtered |-> EdgeHash(filtered[i])])

\* Mutant: 2 / (1 + g).
RhoOf_WrongNumerator(g) == Frac(2, 1 + g)

\* rho[t] = 1.0 / (1.0 + g)
RhoOf(g) == Frac(1, 1 + g)

GammaResult(g, st, filtered) ==
    [gamma |-> g, status |-> st, n_edges |-> Len(filtered), n_nodes |-> Cardinality(universe)]

\* Mutant: the dictionary of the previous constraint is kept.
FreshCache_Keep(previous) == previous

\* cache = {} (line 141): a new dictionary, whatever the previous call's held.
FreshCache(previous) == <<>>

\* m == 0: return {}, {}; otherwise build the hypergraph and enter the loop.
RimStart ==
    /\ unit = "rim" /\ pc = "start"
    /\ pc' = IF Len(mis_list) = 0 THEN "done" ELSE "loop"
    /\ LET h == build_hypergraph_from_mis(mis_list)
       IN  /\ universe' = h.universe
           /\ node_id' = NodeIds(h.universe)
           /\ edges_ids' = EdgesIds(h.edges, NodeIds(h.universe))
    /\ cache' = IF Len(mis_list) = 0 THEN cache ELSE FreshCache(cache)
    /\ UNCHANGED nonHitVars
    /\ UNCHANGED <<inputVars, respVars, gamma_details, rim_contrib,
                   solver_log, rho, solve_result>>

\* One iteration of "for t in universe" that ends at the cache hit.
RimCacheHit(t) ==
    /\ unit = "rim" /\ pc = "loop"
    /\ t \in universe \ DOMAIN rho
    /\ LET filtered == FilteredEdges(t)
           sig == EdgeSignature(filtered)
       IN  /\ enable_cache /\ sig \in DOMAIN cache
           /\ gamma_details' = gamma_details @@ (t :> GammaResult(cache[sig][1], cache[sig][2], filtered))
           /\ rho' = rho @@ (t :> RhoOf(cache[sig][1]))
    /\ UNCHANGED nonHitVars
    /\ UNCHANGED <<inputVars, respVars, universe, node_id, edges_ids, cache, rim_contrib,
                   pc, solver_log, solve_result>>

\* One iteration of "for t in universe" that runs greedy and the solver.
RimSolve(t) ==
    /\ unit = "rim" /\ pc = "loop"
    /\ t \in universe \ DOMAIN rho
    /\ LET filtered == FilteredEdges(t)
           sig == EdgeSignature(filtered)
       IN  /\ ~(enable_cache /\ sig \in DOMAIN cache)
           /\ \E ub \in greedy_hitting_set_size(filtered) :
              \E outcome \in CallOutcomes(filtered, {ub}) :
                LET r  == solve_min_hitting_set_size_cpsat(filtered, {ub}, outcome)
                    g  == IF r[1] < 0 THEN ub ELSE r[1]
                    st == IF r[1] < 0 THEN "TIMEOUT" ELSE r[2]
                IN  /\ cache' = IF enable_cache THEN cache @@ (sig :> <<g, st>>) ELSE cache
                    /\ gamma_details' = gamma_details @@ (t :> GammaResult(g, st, filtered))
                    /\ rho' = rho @@ (t :> RhoOf(g))
                    /\ solver_log' = solver_log @@ (t :> [ub |-> ub, cp_status |-> outcome.status])
    /\ UNCHANGED nonHitVars
    /\ UNCHANGED <<inputVars, respVars, universe, node_id, edges_ids, rim_contrib,
                   pc, solve_result>>

\* After the loop: normalise rho and scale by m = len(mis_list).
RimNormalize ==
    /\ unit = "rim" /\ pc = "loop"
    /\ DOMAIN rho = universe
    /\ LET denom == FracSum(universe, rho)
       IN  rim_contrib' =
             IF denom.num <= 0 THEN <<>>
             ELSE [t \in universe |-> FracMul(FracDiv(rho[t], denom), FracInt(Len(mis_list)))]
    /\ pc' = "done"
    /\ UNCHANGED nonHitVars
    /\ UNCHANGED <<inputVars, respVars, universe, node_id, edges_ids, cache, gamma_details,
                   solver_log, rho, solve_result>>

\* A direct call of solve_min_hitting_set_size_cpsat(edges_arg, upper_bound = ub_arg).
SolveCall ==
    /\ unit = "solve" /\ pc = "start"
    /\ \E outcome \in CallOutcomes(edges_arg, ub_arg) :
         /\ solve_result' = solve_min_hitting_set_size_cpsat(edges_arg, ub_arg, outcome)
         /\ solver_log' = (0 :> [ub |-> ub_arg, cp_status |-> outcome.status])
    /\ pc' = "done"
    /\ UNCHANGED nonHitVars
    /\ UNCHANGED <<inputVars, rimVars, respVars, rho>>

----------------------------------------------------------------------------
\* compute_icqa_resp.py

n_resp == Len(uniq_tuples)

\* tid2idx = {tid: i for i, tid in enumerate(uniq_tuples)}
Tid2Idx(ut) == [tid \in Range(ut) |-> (CHOOSE i \in 1..Len(ut) : ut[i] = tid) - 1]

\* The loop over sup_ans.groupby("support_id"): index sets, empty ones dropped.
SupportSets(sa, t2i) ==
    SelectSeq([i \in DOMAIN sa |-> {t2i[tid] : tid \in sa[i]}], LAMBDA S : S # {})

\* Up to the per-tuple loop: universe indices and support sets of the answer.
RespStart ==
    /\ unit = "resp" /\ pc = "start"
    /\ tid2idx' = Tid2Idx(uniq_tuples)
    /\ support_sets' = SupportSets(sup_ans, Tid2Idx(uniq_tuples))
    /\ pc' = "loop"
    /\ UNCHANGED nonHitVars
    /\ UNCHANGED <<inputVars, rimVars, solver_log, rho, solve_result>>

\* Mutant: the cardinality bound is k - 1 instead of k.
GlucoseSolve_BoundOffByOne(sets, n, k) ==
    \E X \in SUBSET (0..(n - 1)) :
        /\ Cardinality(X) < k
        /\ \A i \in DOMAIN sets : X \cap sets[i] # {}

\* Glucose4 on the clauses OR_{i in S} x_i plus CardEnc.atmost(x_0..x_{n-1}, k):
\* satisfiable iff at most k of the n variables can hit every S.
GlucoseSolve(sets, n, k) ==
    \E X \in SUBSET (0..(n - 1)) :
        /\ Cardinality(X) <= k
        /\ \A i \in DOMAIN sets : X \cap sets[i] # {}

RECURSIVE HittingLoop(_, _, _)
HittingLoop(sets, n, k) ==
    IF k > n THEN n
    ELSE IF \E i \in DOMAIN sets : sets[i] = {} THEN 0
    ELSE IF GlucoseSolve(sets, n, k) THEN k
    ELSE HittingLoop(sets, n, k + 1)

\* Mutant: the sets that contain t are not filtered out.
min_hitting_set_size_for_t_KeepsAll(ss, universe_size, t_idx) ==
    IF ss = <<>> THEN 0 ELSE HittingLoop(ss, universe_size, 0)

min_hitting_set_size_for_t(ss, universe_size, t_idx) ==
    LET sets_minus_t == SelectSeq(ss, LAMBDA S : t_idx \notin S)
    IN  IF sets_minus_t = <<>> THEN 0 ELSE HittingLoop(sets_minus_t, universe_size, 0)

\* Mutant: the denominator is h_star, 1 where that is 0.
RespRho_NoPlusOne(h_star) == Frac(1, IF h_star = 0 THEN 1 ELSE h_star)

\* rho[tid] = 1.0 / (1 + h_star)
RespRho(h_star) == Frac(1, 1 + h_star)

\* One iteration of "for tid, idx_t in tid2idx.items()" (dict order = uniq_tuples order).
RespStep ==
    /\ unit = "resp" /\ pc = "loop"
    /\ Cardinality(DOMAIN rho) < n_resp
    /\ LET tid == uniq_tuples[Cardinality(DOMAIN rho) + 1]
           h_star == min_hitting_set_size_for_t(support_sets, n_resp, tid2idx[tid])
       IN  rho' = rho @@ (tid :> RespRho(h_star))
    /\ UNCHANGED nonHitVars
    /\ UNCHANGED <<inputVars, rimVars, respVars, pc, solver_log, solve_result>>

RespFinish ==
    /\ unit = "resp" /\ pc = "loop"
    /\ Cardinality(DOMAIN rho) = n_resp
    /\ pc' = "done"
    /\ UNCHANGED nonHitVars
    /\ UNCHANGED <<inputVars, rimVars, respVars, solver_log, rho, solve_result>>

----------------------------------------------------------------------------
\* Inputs and the specification of the responsibility engine.

Perms(S) == {f \in [1..Cardinality(S) -> S] : Range(f) = S}

\* MIS lists: witness sets over TupleKeys, the empty one (a MIS without tuples) included.
MisLists == CanonicalLists(SUBSET TupleKeys, MaxMis) \cup {GreedyGapFamily}

\* Support families of an answer: groupby yields at least one group, none empty.
SupportFamilies ==
    (CanonicalLists((SUBSET TupleKeys) \ {{}}, MaxMis) \ {<<>>}) \cup {GreedyGapFamily}

\* Edge lists over node ids for a direct solver call.
EdgeLists == CanonicalLists(SUBSET (0..(MaxTuples - 1)), MaxMis)

InitIdle ==
    /\ universe = {} /\ node_id = <<>> /\ edges_ids = <<>>
    /\ tid2idx = <<>> /\ support_sets = <<>>
    /\ cache = <<>> /\ gamma_details = <<>> /\ solver_log = <<>>
    /\ rho = <<>> /\ rim_contrib = <<>> /\ solve_result = <<>>

InitWeightIdle ==
    /\ w_dcs = <<>> /\ w_i = 0 /\ w_score = <<>> /\ files_read = <<>>

InitAggIdle ==
    /\ tasks = <<>> /\ agg_i = 0 /\ agg_orders = <<>> /\ resp_rows = <<>> /\ shap_rows = <<>>

InitTimeIdle ==
    /\ time_limit = {} /\ elapsed = 0 /\ call_k = 0

InitSeqIdle ==
    /\ rng_draws = 0 /\ seq_i = 0 /\ seq_cur = <<>> /\ seq_counts = <<>> /\ seq_samples = 0
    /\ seq_first = <<>> /\ seq_done = <<>>

InitOrdIdle ==
    /\ ord_sets = <<>> /\ ord_ut = <<>> /\ ord_counts = <<>> /\ ord_samples = 0 /\ ord_w = <<>>

InitGreedyIdle == g_edges = <<>> /\ uncovered = <<>> /\ g_size = 0 /\ picked = {}

InitLaterIdle == InitTimeIdle /\ InitSeqIdle /\ InitOrdIdle /\ InitGreedyIdle

InitRestIdle == InitWeightIdle /\ InitAggIdle /\ InitLaterIdle

InitProvIdle ==
    /\ support_df = {} /\ tm_db = {} /\ measured = {} /\ sum_wide = <<>> /\ all_rows = <<>>

InitCbmIdle ==
    /\ dcs = <<>> /\ dc_i = 0 /\ mis_read = 0 /\ items_read = 0
    /\ tuples_for_dc = {} /\ score = <<>> /\ named_now = {} /\ seen_by_dc = <<>>
    /\ repeated = {}

InitShapIdle ==
    /\ shap_sets = <<>> /\ shap_n = 0 /\ num_samples = 0 /\ mode = ""
    /\ v_mask = <<>> /\ shap_t = 0 /\ counts = <<>> /\ samples_done = 0
    /\ last_walk = <<>> /\ phi = <<>>

InitRim ==
    /\ unit = "rim" /\ pc = "start"
    /\ mis_list \in MisLists
    /\ enable_cache \in BOOLEAN
    /\ sup_ans = <<>> /\ uniq_tuples = <<>> /\ edges_arg = <<>> /\ ub_arg = {}
    /\ InitIdle /\ InitShapIdle /\ InitCbmIdle /\ InitProvIdle /\ InitRestIdle

InitResp ==
    /\ unit = "resp" /\ pc = "start"
    /\ sup_ans \in SupportFamilies
    /\ uniq_tuples \in Perms(UNION Range(sup_ans))
    /\ mis_list = <<>> /\ enable_cache = FALSE /\ edges_arg = <<>> /\ ub_arg = {}
    /\ InitIdle /\ InitShapIdle /\ InitCbmIdle /\ InitProvIdle /\ InitRestIdle

InitSolve ==
    /\ unit = "solve" /\ pc = "start"
    /\ edges_arg \in EdgeLists
    /\ ub_arg \in {{}} \cup {{b} : b \in greedy_hitting_set_size(edges_arg)}
    /\ mis_list = <<>> /\ enable_cache = FALSE /\ sup_ans = <<>> /\ uniq_tuples = <<>>
    /\ InitIdle /\ InitShapIdle /\ InitCbmIdle /\ InitProvIdle /\ InitRestIdle

Init == InitRim \/ InitResp \/ InitSolve

\* What the cache of the constraint scored before this one may hold: nothing, or the
\* pair of a tuple whose filtered edges were one edge.
StaleCaches ==
    {<<>>} \cup
    {EdgeSignature(<<e>>) :> <<1, st>> :
        e \in (SUBSET (0..(MaxTuples - 1))) \ {{}}, st \in {"OPTIMAL", "TIMEOUT"}}

\* compute_rim_for_dc called by compute_rim's loop after an earlier constraint: the
\* cache variable still shows the earlier call's dictionary until line 141.
InitRimNext ==
    /\ unit = "rim" /\ pc = "start"
    /\ mis_list \in MisLists
    /\ enable_cache \in BOOLEAN
    /\ sup_ans = <<>> /\ uniq_tuples = <<>> /\ edges_arg = <<>> /\ ub_arg = {}
    /\ cache \in StaleCaches
    /\ universe = {} /\ node_id = <<>> /\ edges_ids = <<>>
    /\ tid2idx = <<>> /\ support_sets = <<>>
    /\ gamma_details = <<>> /\ solver_log = <<>>
    /\ rho = <<>> /\ rim_contrib = <<>> /\ solve_result = <<>>
    /\ InitShapIdle /\ InitCbmIdle /\ InitProvIdle /\ InitRestIdle

NextRim ==
    \/ RimStart
    \/ \E t \in universe : RimCacheHit(t)
    \/ \E t \in universe : RimSolve(t)
    \/ RimNormalize

NextResp ==
    \/ RespStart
    \/ RespStep
    \/ RespFinish

Next ==
    \/ NextRim
    \/ NextResp
    \/ SolveCall

\* The responsibility engine: one RIM constraint, one answer, or one solver call.
Spec == Init /\ [][Next]_vars

\* compute_rim_for_dc alone.
SpecRim == InitRim /\ [][NextRim]_vars

\* compute_rim_for_dc on one constraint that is not the first of compute_rim's loop.
SpecRimNext == InitRimNext /\ [][NextRim]_vars

\* compute_resp_for_query alone.
SpecResp == InitResp /\ [][NextResp]_vars

\* solve_min_hitting_set_size_cpsat alone.
SpecSolve == InitSolve /\ [][SolveCall]_vars

----------------------------------------------------------------------------
\* Python floats (IEEE 754 binary64) as bit sequences.  A non-negative dyadic number
\* is [e, m]: the value 0.m[1]m[2]... * 2^e with m[1] = 1; zero has m = <<>>.  A double
\* is a dyadic number whose m has DoubleMantissaBits bits.  Only the operations the
\* Shapley code performs are modelled: int / int, float + float on non-negative
\* operands, round to nearest, ties to even.  Exponent range is not modelled (all
\* values lie in [2^-60, 2^60]).

DoubleMantissaBits == 53

Zeros(k) == [i \in 1..k |-> 0]

DyZero == [e |-> 0, m |-> <<>>]

\* The number whose binary digits are bs (at most 16 of them), and back.
RECURSIVE BitsValue(_)
BitsValue(bs) ==
    IF bs = <<>> THEN 0 ELSE 2 * BitsValue(SubSeq(bs, 1, Len(bs) - 1)) + bs[Len(bs)]

ValueBits(v, k) == [i \in 1..k |-> (v \div Pow2(k - i)) % 2]

\* a + b + c for bit sequences of equal length and a carry c; the result has one more
\* bit in front.  The addition goes 16 bits at a time from the last place.
RECURSIVE AddBits(_, _, _)
AddBits(a, b, c) ==
    LET len == Len(a)
    IN  IF len <= 16 THEN ValueBits(BitsValue(a) + BitsValue(b) + c, len + 1)
        ELSE LET low == BitsValue(SubSeq(a, len - 15, len))
                        + BitsValue(SubSeq(b, len - 15, len)) + c
             IN  AddBits(SubSeq(a, 1, len - 16), SubSeq(b, 1, len - 16), low \div 65536)
                     \o ValueBits(low % 65536, 16)

\* The exact sum of two dyadic numbers.
DyAdd(x, y) ==
    IF x.m = <<>> THEN y
    ELSE IF y.m = <<>> THEN x
    ELSE LET hi == IF x.e >= y.e THEN x ELSE y
             lo == IF x.e >= y.e THEN y ELSE x
             d == hi.e - lo.e
             len == IF Len(hi.m) >= d + Len(lo.m) THEN Len(hi.m) ELSE d + Len(lo.m)
             a == hi.m \o Zeros(len - Len(hi.m))
             b == Zeros(d) \o lo.m \o Zeros(len - d - Len(lo.m))
             sum == AddBits(a, b, 0)
         IN  IF sum[1] = 1 THEN [e |-> hi.e + 1, m |-> sum]
                           ELSE [e |-> hi.e, m |-> Tail(sum)]

\* Round a dyadic number to the nearest double, ties to even.
RoundToDouble(x) ==
    LET p == DoubleMantissaBits
    IN  IF Len(x.m) <= p
        THEN IF x.m = <<>> THEN x ELSE [e |-> x.e, m |-> x.m \o Zeros(p - Len(x.m))]
        ELSE LET keep == SubSeq(x.m, 1, p)
                 guard == x.m[p + 1]
                 sticky == \E i \in (p + 2)..Len(x.m) : x.m[i] = 1
                 up == guard = 1 /\ (sticky \/ keep[p] = 1)
                 inc == AddBits(keep, Zeros(p), 1)
             IN  IF ~up THEN [e |-> x.e, m |-> keep]
                 ELSE IF inc[1] = 1 THEN [e |-> x.e + 1, m |-> SubSeq(inc, 1, p)]
                 ELSE [e |-> x.e, m |-> Tail(inc)]

\* float + float
FloatAdd(x, y) == RoundToDouble(DyAdd(x, y))

\* The exact product of a double and a small non-negative integer k.
RECURSIVE DyTimes(_, _)
DyTimes(k, w) == IF k = 0 THEN DyZero ELSE DyAdd(DyTimes(k - 1, w), w)

\* float * float where one factor is the small integer k
FloatTimes(k, w) == RoundToDouble(DyTimes(k, w))

\* Scale x / y into [1/2, 1): x / y = (nx / ny) * 2^e.
RECURSIVE NormalizeQuotient(_, _, _)
NormalizeQuotient(x, y, e) ==
    IF x >= y THEN NormalizeQuotient(x, 2 * y, e + 1)
    ELSE IF 2 * x < y THEN NormalizeQuotient(2 * x, y, e - 1)
    ELSE [x |-> x, y |-> y, e |-> e]

\* 2^i mod y, by repeated squaring (y < 2^15).
RECURSIVE Pow2Mod(_, _)
Pow2Mod(i, y) ==
    IF i = 0 THEN 1 % y
    ELSE LET h == Pow2Mod(i \div 2, y)
         IN  (h * h * (IF i % 2 = 1 THEN 2 ELSE 1)) % y

\* The first k bits of r / y (0 <= r < y) and one more bit telling whether the rest
\* is non-zero: bit i is floor(2 * (r * 2^(i-1) mod y) / y).
QuotientBits(r, y, k) ==
    LET rem(i) == (r * Pow2Mod(i, y)) % y
    IN  [i \in 1..(k + 1) |-> IF i <= k THEN (2 * rem(i - 1)) \div y
                              ELSE IF rem(k) > 0 THEN 1 ELSE 0]

\* a / b for integers a >= 0, b > 0: the correctly rounded quotient.
FloatDiv(a, b) ==
    IF a = 0 THEN DyZero
    ELSE LET nq == NormalizeQuotient(a, b, 0)
         IN  RoundToDouble([e |-> nq.e,
                            m |-> QuotientBits(nq.x, nq.y, DoubleMantissaBits + 1)])

\* The exact sum of the entries of a list of doubles.
RECURSIVE DySum(_)
DySum(xs) == IF xs = <<>> THEN DyZero ELSE DyAdd(DySum(SubSeq(xs, 1, Len(xs) - 1)), xs[Len(xs)])

\* Bit i (1 = first after the binary point) of a dyadic mantissa, 0 beyond its end.
DyBit(x, i) == IF i <= Len(x.m) THEN x.m[i] ELSE 0

DyIsOne(x) == x.e = 1 /\ \A i \in 2..Len(x.m) : x.m[i] = 0

\* |x - 1| < 2^-30 (which is below 1e-9).
DyNearOne(x) ==
    /\ x.m # <<>>
    /\ \/ x.e = 1 /\ \A i \in 2..31 : DyBit(x, i) = 0
       \/ x.e = 0 /\ \A i \in 1..30 : DyBit(x, i) = 1

----------------------------------------------------------------------------
\* compute_icqa_shap.py: the Shapley engine.

N_EXACT == 14

N_SAMPLES == 10000

\* Largest universe size and num_samples of a direct call of approx_shapley.
MaxApproxN == 2

MaxSamples == 2

\* Python's & and | on non-negative ints.
RECURSIVE BitAnd(_, _)
BitAnd(a, b) ==
    IF a = 0 \/ b = 0 THEN 0
    ELSE (a % 2) * (b % 2) + 2 * BitAnd(a \div 2, b \div 2)

RECURSIVE BitOr(_, _)
BitOr(a, b) ==
    IF a = 0 THEN b
    ELSE IF b = 0 THEN a
    ELSE (IF (a % 2) + (b % 2) > 0 THEN 1 ELSE 0) + 2 * BitOr(a \div 2, b \div 2)

\* int.bit_count
RECURSIVE popcount(_)
popcount(mask) == IF mask = 0 THEN 0 ELSE (mask % 2) + popcount(mask \div 2)

\* m |= (1 << idx) for every idx of S, for every S of support_sets.
RECURSIVE OrBits(_)
OrBits(S) ==
    IF S = {} THEN 0
    ELSE LET idx == CHOOSE i \in S : TRUE
         IN  BitOr(OrBits(S \ {idx}), Pow2(idx))

support_sets_to_masks(ss, n) == [i \in DOMAIN ss |-> OrBits(ss[i])]

\* Mutant: a coalition counts only when it holds exactly one element of every set.
HitsAll_ExactlyOne(mask, support_masks) ==
    \A i \in DOMAIN support_masks : popcount(BitAnd(mask, support_masks[i])) = 1

\* all(mask & sm for sm in support_masks)
HitsAll(mask, support_masks) ==
    \A i \in DOMAIN support_masks : BitAnd(mask, support_masks[i]) # 0

\* Mutant: a coalition has value 1 as soon as it meets one of the sets.
compute_v_masks_HitsAny(ss, n) ==
    LET support_masks == support_sets_to_masks(ss, n)
    IN  [i \in 1..Pow2(n) |->
            IF \E j \in DOMAIN support_masks : BitAnd(i - 1, support_masks[j]) # 0
            THEN 1 ELSE 0]

\* v_mask of _compute_v_masks: entry mask + 1 is v(mask).
compute_v_masks(ss, n) ==
    LET support_masks == support_sets_to_masks(ss, n)
    IN  [i \in 1..Pow2(n) |-> IF HitsAll(i - 1, support_masks) THEN 1 ELSE 0]

\* fact[i]
RECURSIVE Fact(_)
Fact(i) == IF i = 0 THEN 1 ELSE Fact(i - 1) * i

\* Mutant: the weight of a coalition of size k uses fact[n - k] for fact[n - k - 1].
ExactWeight_WrongFactorial(k, n) == FloatDiv(Fact(k) * Fact(n - k), Fact(n))

\* weight = fact[k] * fact[n - k - 1] / denom
ExactWeight(k, n) == FloatDiv(Fact(k) * Fact(n - k - 1), Fact(n))

\* The value of s after the iterations mask = 0..upto of "for mask in range(size)"
\* for element t.  Where vCt # vC the factor vCt - vC is 1 (VMaskMonotone below),
\* and weight * 1 is weight.
RECURSIVE ExactAccumulate(_, _, _, _)
ExactAccumulate(t, n, vm, upto) ==
    IF upto < 0 THEN DyZero
    ELSE LET bit_t == Pow2(t)
             before == ExactAccumulate(t, n, vm, upto - 1)
             vC == vm[upto + 1]
             vCt == vm[BitOr(upto, bit_t) + 1]
         IN  IF BitAnd(upto, bit_t) # 0 THEN before
             ELSE IF vCt = vC THEN before
             ELSE FloatAdd(before, ExactWeight(popcount(upto), n))

\* Lines 204-212 of compute_icqa_shap_for_answer: the degenerate case, else the mode
\* by universe size; then the prologue of the chosen function.
ShapStart ==
    /\ unit = "shap" /\ pc = "start"
    /\ IF shap_n = 0 \/ shap_sets = <<>>
       THEN /\ mode' = "zero" /\ pc' = "done"
            /\ UNCHANGED <<v_mask, phi, counts, num_samples>>
       ELSE IF shap_n <= N_EXACT
       THEN /\ mode' = "exact" /\ pc' = "exact"
            /\ v_mask' = compute_v_masks(shap_sets, shap_n)
            /\ phi' = [i \in 1..shap_n |-> DyZero]
            /\ UNCHANGED <<counts, num_samples>>
       ELSE /\ mode' = "approx" /\ pc' = "approx"
            /\ num_samples' = N_SAMPLES
            /\ counts' = [i \in 1..shap_n |-> 0]
            /\ UNCHANGED <<v_mask, phi>>
    /\ UNCHANGED <<nonShapData, shap_sets, shap_n, shap_t, samples_done, last_walk>>

\* One iteration of "for t in range(n)" of exact_shapley.
ExactStep ==
    /\ unit = "shap" /\ pc = "exact"
    /\ shap_t < shap_n
    /\ phi' = [phi EXCEPT ![shap_t + 1] =
                  ExactAccumulate(shap_t, shap_n, v_mask, Pow2(shap_n) - 1)]
    /\ shap_t' = shap_t + 1
    /\ UNCHANGED <<nonShapData, pc, shap_sets, shap_n, num_samples, mode, v_mask, counts,
                   samples_done, last_walk>>

\* return phi
ExactReturn ==
    /\ unit = "shap" /\ pc = "exact"
    /\ shap_t = shap_n
    /\ pc' = "done"
    /\ UNCHANGED <<nonShapData, shapVars>>

\* A direct call of approx_shapley(support_sets, n, num_samples): up to the loop.
ApproxStart ==
    /\ unit = "approx" /\ pc = "start"
    /\ IF shap_n = 0
       THEN pc' = "done" /\ UNCHANGED counts
       ELSE pc' = "approx" /\ counts' = [i \in 1..shap_n |-> 0]
    /\ mode' = "approx"
    /\ UNCHANGED <<nonShapData, shap_sets, shap_n, num_samples, v_mask, shap_t,
                   samples_done, last_walk, phi>>

\* Mutant: the walk neither breaks after a credit nor checks vC, so every element
\* from the first hit on is credited.
RECURSIVE Walk_NoStop(_, _, _, _)
Walk_NoStop(perm, pos, support_masks, w) ==
    IF pos > Len(perm) THEN w
    ELSE LET idx == perm[pos]
             coalition_mask == BitOr(w.coalition_mask, Pow2(idx))
         IN  Walk_NoStop(perm, pos + 1, support_masks,
                 [coalition_mask |-> coalition_mask,
                  vC |-> IF HitsAll(coalition_mask, support_masks) THEN 1 ELSE 0,
                  credited |-> IF HitsAll(coalition_mask, support_masks)
                               THEN Append(w.credited, idx) ELSE w.credited,
                  steps |-> w.steps + 1])

\* "for idx in perm" from position pos on.  w holds coalition_mask and vC, the
\* elements credited so far (counts[idx] += 1.0) and the number of iterations that
\* got past "if vC: break".
RECURSIVE Walk(_, _, _, _)
Walk(perm, pos, support_masks, w) ==
    IF pos > Len(perm) THEN w
    ELSE IF w.vC = 1 THEN w
    ELSE LET idx == perm[pos]
             coalition_mask == BitOr(w.coalition_mask, Pow2(idx))
             new_vC == IF HitsAll(coalition_mask, support_masks) THEN 1 ELSE 0
         IN  IF w.vC = 0 /\ new_vC = 1
             THEN [coalition_mask |-> coalition_mask, vC |-> new_vC,
                   credited |-> Append(w.credited, idx), steps |-> w.steps + 1]
             ELSE Walk(perm, pos + 1, support_masks,
                       [coalition_mask |-> coalition_mask, vC |-> new_vC,
                        credited |-> w.credited, steps |-> w.steps + 1])

\* counts after counts[idx] += 1.0 for every credited idx.
Credit(cnt, credited) ==
    [i \in DOMAIN cnt |->
        cnt[i] + Cardinality({j \in DOMAIN credited : credited[j] = i - 1})]

\* One iteration of "for _ in range(num_samples)": rng.permutation(n) may be any
\* permutation of 0..n-1.
ApproxSample(perm) ==
    /\ unit = "approx" /\ pc = "approx"
    /\ samples_done < num_samples
    /\ LET w == Walk(perm, 1, support_sets_to_masks(shap_sets, shap_n),
                     [coalition_mask |-> 0, vC |-> 0, credited |-> <<>>, steps |-> 0])
       IN  /\ counts' = Credit(counts, w.credited)
           /\ last_walk' = [perm |-> perm, credited |-> w.credited, steps |-> w.steps]
    /\ samples_done' = samples_done + 1
    /\ UNCHANGED <<nonShapData, pc, shap_sets, shap_n, num_samples, mode, v_mask, shap_t, phi>>

\* phi = (counts / num_samples).tolist()
ApproxReturn ==
    /\ unit = "approx" /\ pc = "approx"
    /\ samples_done = num_samples
    /\ phi' = [i \in DOMAIN counts |-> FloatDiv(counts[i], num_samples)]
    /\ pc' = "done"
    /\ UNCHANGED <<nonShapData, shap_sets, shap_n, num_samples, mode, v_mask, shap_t, counts,
                   samples_done, last_walk>>

\* Index sets over 0..n-1.
IndexSets(n) == SUBSET (0..(n - 1))

\* What lines 193-202 hand to the dispatch: non-empty index sets, every index of the
\* universe in at least one of them (tid2idx numbers the tuples of the rows).
AnswerFamilies(n) ==
    {ss \in CanonicalLists(IndexSets(n) \ {{}}, MaxMis) :
        ss # <<>> /\ UNION Range(ss) = 0..(n - 1)}

InitHitIdle ==
    /\ mis_list = <<>> /\ enable_cache = FALSE /\ sup_ans = <<>> /\ uniq_tuples = <<>>
    /\ edges_arg = <<>> /\ ub_arg = {}
    /\ InitIdle

\* One answer at the dispatch of compute_icqa_shap_for_answer.
\* The smallest answer on which a float sum of exact_shapley is not the double
\* nearest to its real value: four tuples, witness sets {0, 1} and {0, 2, 3}.
RoundingAnswer == [n |-> 4, sets |-> <<{0, 1}, {0, 2, 3}>>]

InitShapAnswer ==
    /\ unit = "shap" /\ pc = "start"
    /\ \/ shap_n \in 1..MaxTuples /\ shap_sets \in AnswerFamilies(shap_n)
       \/ shap_n = RoundingAnswer.n /\ shap_sets = RoundingAnswer.sets
    /\ num_samples = 0 /\ mode = "" /\ v_mask = <<>> /\ shap_t = 0 /\ counts = <<>>
    /\ samples_done = 0 /\ last_walk = <<>> /\ phi = <<>>
    /\ InitHitIdle /\ InitCbmIdle /\ InitProvIdle /\ InitRestIdle

\* A direct call of approx_shapley; the sets may be empty or miss part of the universe.
InitApproxCall ==
    /\ unit = "approx" /\ pc = "start"
    /\ shap_n \in 1..MaxApproxN
    /\ shap_sets \in CanonicalLists(IndexSets(shap_n), MaxMis)
    /\ num_samples \in 1..MaxSamples
    /\ mode = "" /\ v_mask = <<>> /\ shap_t = 0 /\ counts = <<>>
    /\ samples_done = 0 /\ last_walk = <<>> /\ phi = <<>>
    /\ InitHitIdle /\ InitCbmIdle /\ InitProvIdle /\ InitRestIdle

InitShap == InitShapAnswer \/ InitApproxCall

NextShap ==
    \/ ShapStart
    \/ ExactStep
    \/ ExactReturn
    \/ ApproxStart
    \/ \E perm \in Perms(0..(shap_n - 1)) : ApproxSample(perm)
    \/ ApproxReturn

\* The Shapley engine: one answer through the dispatch, or one call of approx_shapley.
SpecShap == InitShap /\ [][NextShap]_vars

\* A direct call of _compute_v_masks: any list of index sets, the empty list and the
\* empty set included, over a universe of 0..MaxTuples elements.
InitVMask ==
    /\ unit = "vmask" /\ pc = "start"
    /\ shap_n \in 0..MaxTuples
    /\ shap_sets \in CanonicalLists(IndexSets(shap_n), MaxMis)
    /\ num_samples = 0 /\ mode = "" /\ v_mask = <<>> /\ shap_t = 0 /\ counts = <<>>
    /\ samples_done = 0 /\ last_walk = <<>> /\ phi = <<>>
    /\ InitHitIdle /\ InitCbmIdle /\ InitProvIdle /\ InitRestIdle

\* Lines 64-76: the call returns v_mask.
VMaskCall ==
    /\ unit = "vmask" /\ pc = "start"
    /\ v_mask' = compute_v_masks(shap_sets, shap_n)
    /\ pc' = "done"
    /\ UNCHANGED <<nonShapData, shap_sets, shap_n, num_samples, mode, shap_t, counts,
                   samples_done, last_walk, phi>>

SpecVMask == InitVMask /\ [][VMaskCall]_vars
----------------------------------------------------------------------------
\* measures/rim.py, greedy_hitting_set_size round by round.

\* Largest number of edges of the argument.
MaxGreedyEdges == 3

\* The variables the greedy loop leaves alone, pc apart.
nonGreedyData == <<hitData, shapVars, cbmVars, provVars, weightVars, aggVars, timeVars,
                   seqVars, ordVars, unit>>

\* Mutant: best_u is any element of the argument's edges, hit edges included.
GreedyBest_AnyNode(unc) == UNION Range(g_edges)

\* Lines 31-39: the elements of maximal frequency among the uncovered edges; the
\* first of them in the freq dict is best_u, and any of them can be the first.
GreedyBest(unc) ==
    LET nodes == UNION Range(unc)
    IN  {u \in nodes : \A w \in nodes : Freq(w, unc) <= Freq(u, unc)}

\* Lines 26-28: uncovered = [set(e) for e in edges if e]; return 0 if it is empty.
GreedyStart ==
    /\ unit = "greedy" /\ pc = "start"
    /\ uncovered' = SelectSeq(g_edges, LAMBDA e : e # {})
    /\ pc' = IF uncovered' = <<>> THEN "done" ELSE "loop"
    /\ UNCHANGED <<nonGreedyData, g_edges, g_size, picked>>

\* Lines 30-44, one iteration of "while uncovered".
GreedyRound(best_u) ==
    /\ unit = "greedy" /\ pc = "loop"
    /\ uncovered # <<>>
    /\ best_u \in GreedyBest(uncovered)
    /\ g_size' = g_size + 1
    /\ uncovered' = SelectSeq(uncovered, LAMBDA e : best_u \notin e)
    /\ picked' = picked \cup {best_u}
    /\ UNCHANGED <<nonGreedyData, pc, g_edges>>

\* Line 45: return size.
GreedyReturn ==
    /\ unit = "greedy" /\ pc = "loop"
    /\ uncovered = <<>>
    /\ pc' = "done"
    /\ UNCHANGED <<nonGreedyData, greedyVars>>

\* Any list of up to MaxGreedyEdges sets over the tuple ids, the empty set included,
\* and the list on which the greedy size can exceed the minimum.
InitGreedy ==
    /\ unit = "greedy" /\ pc = "start"
    /\ g_edges \in CanonicalLists(SUBSET (1..MaxTuples), MaxGreedyEdges)
                    \cup {GreedyGapFamily}
    /\ uncovered = <<>> /\ g_size = 0 /\ picked = {}
    /\ InitHitIdle /\ InitShapIdle /\ InitCbmIdle /\ InitProvIdle /\ InitWeightIdle
    /\ InitAggIdle /\ InitTimeIdle /\ InitSeqIdle /\ InitOrdIdle

NextGreedy ==
    \/ GreedyStart
    \/ \E best_u \in UNION Range(g_edges) : GreedyRound(best_u)
    \/ GreedyReturn

SpecGreedy == InitGreedy /\ [][NextGreedy]_vars

\* The function runs on its own: a step that is possible is taken.
SpecGreedyFair == SpecGreedy /\ WF_vars(NextGreedy)
----------------------------------------------------------------------------
\* measures/cbm.py and measures/common.py: the constraint-based measure.
\* A MIS file is iterated as compute_cbm iterates it: witness set by witness set,
\* item by item; what the file holds is chosen when it is read.

\* Largest number of constraints, of primary keys and of items in one pks list.
MaxDcs == 2

MaxPk == 2

MaxItems == 2

\* The relation of the MIS files of the model.
Relations == {"part"}

\* A raw primary key as json.loads gives it: an int, or a non-empty list of ints.
RawPks ==
    {[form |-> "int", n |-> k] : k \in 1..MaxPk}
        \cup {[form |-> "list", xs |-> <<k>>] : k \in 1..MaxPk}

\* Raw primary keys normalize_pk rejects: None, and the empty list.
BadPks == {[form |-> "none"], [form |-> "list", xs |-> <<>>]}

\* Lines 22-28 of normalize_pk: raise ValueError("pk is None") / ("empty pk list").
normalize_pk_raises(pk) ==
    \/ pk.form = "none"
    \/ pk.form = "list" /\ Len(pk.xs) = 0

\* normalize_pk on the forms of RawPks: (pk,) for an int, tuple(int(x) for x in pk)
\* for a list.
normalize_pk(pk) ==
    IF pk.form = "int" THEN <<pk.n>>
    ELSE [i \in 1..Len(pk.xs) |-> pk.xs[i]]

\* What iter_mis_tuples yields for one item of a relation.
TupleKeyOf(rel, item) == <<rel, normalize_pk(item)>>

\* Mutant: the constraint's contribution is assigned, not added.
AddDcScore_Assign(sc, tks) ==
    [tk \in DOMAIN sc \cup tks |-> IF tk \in tks THEN 1 ELSE sc[tk]]

\* for tk in tuples_for_dc: score[tk] += 1.0   (absent keys start at 0.0)
AddDcScore(sc, tks) ==
    [tk \in DOMAIN sc \cup tks |->
        (IF tk \in DOMAIN sc THEN sc[tk] ELSE 0) + (IF tk \in tks THEN 1 ELSE 0)]

\* "for dc in dcs": the file is missing (continue) or is loaded.
CbmOpen(exists) ==
    /\ unit = "cbm" /\ pc = "dc"
    /\ dc_i < Len(dcs)
    /\ IF exists
       THEN /\ pc' = "mis"
            /\ UNCHANGED <<dc_i, seen_by_dc>>
       ELSE /\ pc' = "dc"
            /\ dc_i' = dc_i + 1
            /\ seen_by_dc' = Append(seen_by_dc, {})
    /\ tuples_for_dc' = {} /\ mis_read' = 0 /\ items_read' = 0
    /\ named_now' = {} /\ repeated' = {}
    /\ UNCHANGED <<nonCbmData, dcs, score>>

\* The tuple a raw item of a relation names: the relation and the key's numbers.
KeyNamed(rel, raw) == <<rel, IF raw.form = "int" THEN <<raw.n>> ELSE raw.xs>>

\* tuples_for_dc.add(tk) for the key yielded for a raw item, and the history of the
\* tuples the file names, and names more than once.
CbmAdd(rel, raw) ==
    /\ tuples_for_dc' = tuples_for_dc \cup {TupleKeyOf(rel, raw)}
    /\ named_now' = named_now \cup {KeyNamed(rel, raw)}
    /\ repeated' = IF KeyNamed(rel, raw) \in named_now
                   THEN repeated \cup {KeyNamed(rel, raw)} ELSE repeated

\* "for mis in mis_list", a witness set that yields nothing: no "tuples", "tuples" not
\* a dict or without relations, or pks None.
CbmMisEmpty ==
    /\ unit = "cbm" /\ pc = "mis"
    /\ mis_read < MaxMis
    /\ mis_read' = mis_read + 1
    /\ UNCHANGED <<nonCbmData, pc, dcs, dc_i, items_read, tuples_for_dc, score,
                   named_now, seen_by_dc, repeated>>

\* A witness set whose pks is not a list: yield (rel, normalize_pk(pks)).
CbmMisScalar(rel, pks) ==
    /\ unit = "cbm" /\ pc = "mis"
    /\ mis_read < MaxMis
    /\ pks.form = "int"
    /\ CbmAdd(rel, pks)
    /\ mis_read' = mis_read + 1
    /\ UNCHANGED <<nonCbmData, pc, dcs, dc_i, items_read, score, seen_by_dc>>

\* A witness set whose pks is a list: its items follow.
CbmMisList ==
    /\ unit = "cbm" /\ pc = "mis"
    /\ mis_read < MaxMis
    /\ pc' = "items" /\ items_read' = 0
    /\ UNCHANGED <<nonCbmData, dcs, dc_i, mis_read, tuples_for_dc, score,
                   named_now, seen_by_dc, repeated>>

\* "for item in pks": yield (rel, normalize_pk(item)).
CbmItem(rel, item) ==
    /\ unit = "cbm" /\ pc = "items"
    /\ items_read < MaxItems
    /\ CbmAdd(rel, item)
    /\ items_read' = items_read + 1
    /\ UNCHANGED <<nonCbmData, pc, dcs, dc_i, mis_read, score, seen_by_dc>>

\* load_mis_file raises ValueError: the file holds JSON that is neither a list nor a
\* dict with the key "mis"; compute_cbm does not catch it.
CbmLoadRaises ==
    /\ unit = "cbm" /\ pc = "dc"
    /\ dc_i < Len(dcs)
    /\ pc' = "error"
    /\ UNCHANGED <<nonCbmData, dcs, dc_i, mis_read, items_read, tuples_for_dc, score,
                   named_now, seen_by_dc, repeated>>

\* "for item in pks": normalize_pk(item) raises ValueError, which neither
\* iter_mis_tuples nor compute_cbm catches.
CbmItemRaises(item) ==
    /\ unit = "cbm" /\ pc = "items"
    /\ items_read < MaxItems
    /\ normalize_pk_raises(item)
    /\ pc' = "error"
    /\ UNCHANGED <<nonCbmData, dcs, dc_i, mis_read, items_read, tuples_for_dc, score,
                   named_now, seen_by_dc, repeated>>

\* The pks list is exhausted.
CbmEndItems ==
    /\ unit = "cbm" /\ pc = "items"
    /\ pc' = "mis" /\ mis_read' = mis_read + 1
    /\ UNCHANGED <<nonCbmData, dcs, dc_i, items_read, tuples_for_dc, score,
                   named_now, seen_by_dc, repeated>>

\* mis_list is exhausted: every tuple of tuples_for_dc gets the constraint's +1.
CbmClose ==
    /\ unit = "cbm" /\ pc = "mis"
    /\ score' = AddDcScore(score, tuples_for_dc)
    /\ seen_by_dc' = Append(seen_by_dc, named_now)
    /\ dc_i' = dc_i + 1
    /\ pc' = "dc"
    /\ UNCHANGED <<nonCbmData, dcs, mis_read, items_read, tuples_for_dc, named_now,
                   repeated>>

\* return dict(score)
CbmReturn ==
    /\ unit = "cbm" /\ pc = "dc"
    /\ dc_i = Len(dcs)
    /\ pc' = "done"
    /\ UNCHANGED <<nonCbmData, cbmVars>>

InitCbm ==
    /\ unit = "cbm" /\ pc = "dc"
    /\ dcs \in {[i \in 1..k |-> i] : k \in 0..MaxDcs}
    /\ dc_i = 0 /\ mis_read = 0 /\ items_read = 0
    /\ tuples_for_dc = {} /\ score = <<>> /\ named_now = {} /\ seen_by_dc = <<>>
    /\ repeated = {}
    /\ InitHitIdle /\ InitShapIdle /\ InitProvIdle /\ InitRestIdle

NextCbm ==
    \/ \E exists \in BOOLEAN : CbmOpen(exists)
    \/ CbmMisEmpty
    \/ \E rel \in Relations, pks \in RawPks : CbmMisScalar(rel, pks)
    \/ CbmMisList
    \/ \E rel \in Relations, item \in RawPks : CbmItem(rel, item)
    \/ CbmLoadRaises
    \/ \E item \in RawPks \cup BadPks : CbmItemRaises(item)
    \/ CbmEndItems
    \/ CbmClose
    \/ CbmReturn

\* compute_cbm on one MIS directory.
SpecCbm == InitCbm /\ [][NextCbm]_vars

----------------------------------------------------------------------------
\* compute_icqa_prov.py: the provenance-sum aggregator, for one query of one database.
\* Measure values are small integers, on which float addition is exact.

MEASURES == <<"CBM", "CIM", "PIM", "RIM">>

\* Largest number of support rows and of measure rows.
MaxSupportRows == 3

MaxTmRows == 2

AnswerIds == {1, 2}

SupportIds == {1, 2}

\* relation#pk of the tuples
ProvTuples == {"part#1", "part#2"}

\* The measure kinds and values of the measure rows.
TmKinds == {"CBM", "RIM"}

TmValues == {1, 2}

SupportRows == [answer_id : AnswerIds, support_id : SupportIds, tuple : ProvTuples]

\* One answer whose witness sets are the same single tuple under three ids.
RepeatedSingletonRows ==
    {[answer_id |-> 1, support_id |-> s, tuple |-> "part#1"] : s \in 1..3}

TmRows == [tuple : ProvTuples, measure : TmKinds, value : TmValues]

\* The subsets of S with at most k elements.
RECURSIVE SubsetsUpTo(_, _)
SubsetsUpTo(S, k) ==
    IF k = 0 THEN {{}}
    ELSE LET smaller == SubsetsUpTo(S, k - 1)
         IN  smaller \cup {T \cup {x} : T \in smaller, x \in S}

\* The contents of the support store the aggregators are run on.
SupportTables == SubsetsUpTo(SupportRows, MaxSupportRows)

\* The contents of the support store the three aggregators are compared on.
MaxScoreRows == 2

ScoreTables == SubsetsUpTo(SupportRows, MaxScoreRows) \cup {RepeatedSingletonRows}

\* support_df.merge(tm_db, on=["relation", "pk"], how="left") and the filter
\* merged["measure"].notna(): one row per support row and measure row of its tuple.
Measured(sd, tm) ==
    {[answer_id |-> p[1].answer_id, support_id |-> p[1].support_id,
      tuple |-> p[1].tuple, measure |-> p[2].measure, value |-> p[2].value] :
        p \in {q \in sd \X tm : q[1].tuple = q[2].tuple}}

\* A sum that counts a tuple once however many witness sets hold it.
GroupSum_OncePerTuple(rows) ==
    LET firsts == {r \in rows : \A q \in rows : q.tuple = r.tuple => r.support_id <= q.support_id}
    IN  SetSum(firsts, [r \in firsts |-> r.value])

\* groupby(...)["value"].sum() of one group
GroupSum(rows) == SetSum(rows, [r \in rows |-> r.value])

\* Lines 216-233: group sums, the pivot (a cell without a group is NaN) and the
\* columns of MEASURES the pivot lacks, filled with 0.0.
SumWide(ms) ==
    LET columns == {r.measure : r \in ms}
        group(a, m) == {r \in ms : r.answer_id = a /\ r.measure = m}
    IN  [a \in {r.answer_id : r \in ms} |->
            [m \in columns \cup Range(MEASURES) |->
                IF m \notin columns THEN {0}
                ELSE IF group(a, m) = {} THEN {}
                ELSE {GroupSum(group(a, m))}]]

\* Lines 159-181: the merge.
ProvMerge ==
    /\ unit = "prov" /\ pc = "start"
    /\ measured' = Measured(support_df, tm_db)
    /\ pc' = "merged"
    /\ UNCHANGED <<nonProvData, support_df, tm_db, sum_wide, all_rows>>

\* Lines 183-214, one iteration of "for _, row in answers.iterrows()": a row with the
\* identifying columns only (icqa_val is assigned and dropped).  The answers come in
\* the order of the support rows, here ascending.
ProvEmitUnmeasured ==
    /\ unit = "prov" /\ pc = "merged"
    /\ measured = {}
    /\ LET answers == SortedValues({r.answer_id : r \in support_df},
                                   [a \in {r.answer_id : r \in support_df} |-> a])
       IN  /\ Len(all_rows) < Len(answers)
           /\ all_rows' = Append(all_rows,
                  [answer_id |-> answers[Len(all_rows) + 1], icqa |-> <<>>])
    /\ UNCHANGED <<nonProvData, pc, support_df, tm_db, measured, sum_wide>>

\* Lines 216-238: aggregate and pivot.
ProvPivot ==
    /\ unit = "prov" /\ pc = "merged"
    /\ measured # {}
    /\ sum_wide' = SumWide(measured)
    /\ pc' = "emit"
    /\ UNCHANGED <<nonProvData, support_df, tm_db, measured, all_rows>>

\* Lines 241-264, one iteration of "for _, row in sum_wide.iterrows()".
ProvEmitRow ==
    /\ unit = "prov" /\ pc = "emit"
    /\ LET answers == SortedValues(DOMAIN sum_wide, [a \in DOMAIN sum_wide |-> a])
       IN  /\ Len(all_rows) < Len(answers)
           /\ LET a == answers[Len(all_rows) + 1]
              IN  all_rows' = Append(all_rows,
                      [answer_id |-> a,
                       icqa |-> [m \in Range(MEASURES) |-> sum_wide[a][m]]])
    /\ UNCHANGED <<nonProvData, pc, support_df, tm_db, measured, sum_wide>>

\* The query is done: every answer of its loop has its row.
ProvFinish ==
    /\ unit = "prov" /\ pc \in {"merged", "emit"}
    /\ Len(all_rows) = Cardinality(IF pc = "emit" THEN DOMAIN sum_wide
                                   ELSE {r.answer_id : r \in support_df})
    /\ pc = "merged" => measured = {}
    /\ pc' = "done"
    /\ UNCHANGED <<nonProvData, provVars>>

\* A non-empty support table, and a measure table with one value per tuple and kind.
InitProvOn(tables) ==
    /\ unit = "prov" /\ pc = "start"
    /\ support_df \in tables \ {{}}
    /\ tm_db \in {tm \in SubsetsUpTo(TmRows, MaxTmRows) \ {{}} :
                    \A x, y \in tm : (x.tuple = y.tuple /\ x.measure = y.measure) => x = y}
    /\ measured = {} /\ sum_wide = <<>> /\ all_rows = <<>>
    /\ InitHitIdle /\ InitShapIdle /\ InitCbmIdle /\ InitRestIdle

InitProv == InitProvOn(SupportTables)

NextProv ==
    \/ ProvMerge
    \/ ProvEmitUnmeasured
    \/ ProvPivot
    \/ ProvEmitRow
    \/ ProvFinish

\* compute_icqa_prov.py's main on one query.
SpecProv == InitProv /\ [][NextProv]_vars

----------------------------------------------------------------------------
\* measures/cim.py and measures/pim.py: the weighted counting measures.
\* A MIS stands as the set of TupleKeys iter_mis_tuples yields for it (extract_mis.py
\* writes one key per relation of a MIS); a file is chosen when it is loaded.  Scores
\* are doubles.

CIM_WEIGHTS ==
    ("DC1" :> ("lineitem" :> 1))
        @@ ("DC2" :> (("orders" :> 2) @@ ("lineitem" :> 2)))
        @@ ("DC3" :> (("orders" :> 2) @@ ("lineitem" :> 2)))
        @@ ("DC4" :> (("lineitem" :> 2) @@ ("partsupp" :> 3) @@ ("part" :> 1)))

\* The literals 1.0, 0.5, 0.5 and the quotient 1.0 / 3.0, as numerator and denominator.
PIM_WEIGHTS ==
    ("DC1" :> <<1, 1>>) @@ ("DC2" :> <<1, 2>>) @@ ("DC3" :> <<1, 2>>)
        @@ ("DC4" :> <<1, 3>>)

\* The constraint names a run may be given, in the order they are given; "DC5" has
\* no weight in either table.
WeightDcNames == <<"DC1", "DC4", "DC5">>

\* The tuples the MIS files of the model name.
WeightTuples == {<<"lineitem", <<1, 1>>>>, <<"part", <<1>>>>}

\* The MIS lists a file can hold.
WeightFiles == UNION {[1..j -> SUBSET WeightTuples] : j \in 0..MaxMis}

\* The sub-lists of xs with at most k entries.
SubLists(xs, k) ==
    {[i \in 1..Cardinality(S) |->
        xs[CHOOSE j \in S : Cardinality({l \in S : l < j}) = i - 1]] :
            S \in {T \in SUBSET DOMAIN xs : Cardinality(T) <= k}}

\* Mutant: the weight is assigned, not added.
AddWeight_Assign(sc, tk, w) ==
    [k \in DOMAIN sc \cup {tk} |-> IF k = tk THEN w ELSE sc[k]]

\* score[tk] += w on a defaultdict(float)
AddWeight(sc, tk, w) ==
    [k \in DOMAIN sc \cup {tk} |->
        IF k = tk THEN FloatAdd(IF tk \in DOMAIN sc THEN sc[tk] ELSE DyZero, w)
        ELSE sc[k]]

\* rel_w.get(rel, 0.0), as a double
CimWeight(rel_w, rel) == IF rel \in DOMAIN rel_w THEN FloatDiv(rel_w[rel], 1) ELSE DyZero

\* PIM_WEIGHTS.get(dc, 0.0), as a double
PimWeight(dc) ==
    IF dc \in DOMAIN PIM_WEIGHTS THEN FloatDiv(PIM_WEIGHTS[dc][1], PIM_WEIGHTS[dc][2])
    ELSE DyZero

\* cim.py, "for rel, pk in iter_mis_tuples(mis)": w = rel_w.get(rel, 0.0), and
\* score[(rel, pk)] += w if w.  The keys of one MIS are distinct, so each is added to
\* once, in whatever order the dictionary yields them.
RECURSIVE CimAddMis(_, _, _)
CimAddMis(sc, mis, rel_w) ==
    IF mis = {} THEN sc
    ELSE LET tk == CHOOSE x \in mis : TRUE
             w == CimWeight(rel_w, tk[1])
         IN  CimAddMis(IF w # DyZero THEN AddWeight(sc, tk, w) ELSE sc, mis \ {tk}, rel_w)

\* cim.py, "for mis in mis_list"
RECURSIVE CimAddFile(_, _, _)
CimAddFile(sc, file, rel_w) ==
    IF file = <<>> THEN sc
    ELSE CimAddFile(CimAddMis(sc, Head(file), rel_w), Tail(file), rel_w)

\* pim.py, "for tk in iter_mis_tuples(mis)": score[tk] += w
RECURSIVE PimAddMis(_, _, _)
PimAddMis(sc, mis, w) ==
    IF mis = {} THEN sc
    ELSE LET tk == CHOOSE x \in mis : TRUE
         IN  PimAddMis(AddWeight(sc, tk, w), mis \ {tk}, w)

\* pim.py, "for mis in mis_list"
RECURSIVE PimAddFile(_, _, _)
PimAddFile(sc, file, w) ==
    IF file = <<>> THEN sc
    ELSE PimAddFile(PimAddMis(sc, Head(file), w), Tail(file), w)

\* The constraint the loop "for dc in dcs" is at.
WeightDc == w_dcs[w_i + 1]

\* rel_w = CIM_WEIGHTS.get(dc, {})
CimRelW == IF WeightDc \in DOMAIN CIM_WEIGHTS THEN CIM_WEIGHTS[WeightDc] ELSE <<>>

\* The loop variables move to the next constraint; file is what this one loaded.
WeightNext(file) ==
    /\ w_i' = w_i + 1
    /\ files_read' = Append(files_read,
                            [tk \in WeightTuples |->
                                Cardinality({i \in DOMAIN file : tk \in file[i]})])
    /\ UNCHANGED <<nonWeightData, pc, w_dcs>>

\* compute_cim: "if not rel_w: continue"
CimNoWeights ==
    /\ unit = "cim" /\ pc = "dc" /\ w_i < Len(w_dcs)
    /\ CimRelW = <<>>
    /\ w_score' = w_score
    /\ WeightNext(<<>>)

\* compute_cim: "if not path.exists(): continue"
CimNoFile ==
    /\ unit = "cim" /\ pc = "dc" /\ w_i < Len(w_dcs)
    /\ CimRelW # <<>>
    /\ w_score' = w_score
    /\ WeightNext(<<>>)

\* compute_cim: the file of the constraint is loaded and its MIS are gone through.
CimFile(file) ==
    /\ unit = "cim" /\ pc = "dc" /\ w_i < Len(w_dcs)
    /\ CimRelW # <<>>
    /\ w_score' = CimAddFile(w_score, file, CimRelW)
    /\ WeightNext(file)

\* compute_pim: "if w == 0.0: continue"
PimNoWeight ==
    /\ unit = "pim" /\ pc = "dc" /\ w_i < Len(w_dcs)
    /\ PimWeight(WeightDc) = DyZero
    /\ w_score' = w_score
    /\ WeightNext(<<>>)

\* compute_pim: "if not path.exists(): continue"
PimNoFile ==
    /\ unit = "pim" /\ pc = "dc" /\ w_i < Len(w_dcs)
    /\ PimWeight(WeightDc) # DyZero
    /\ w_score' = w_score
    /\ WeightNext(<<>>)

\* compute_pim: the file of the constraint is loaded and its MIS are gone through.
PimFile(file) ==
    /\ unit = "pim" /\ pc = "dc" /\ w_i < Len(w_dcs)
    /\ PimWeight(WeightDc) # DyZero
    /\ w_score' = PimAddFile(w_score, file, PimWeight(WeightDc))
    /\ WeightNext(file)

\* return dict(score)
WeightReturn ==
    /\ unit \in {"cim", "pim"} /\ pc = "dc"
    /\ w_i = Len(w_dcs)
    /\ pc' = "done"
    /\ UNCHANGED <<nonWeightData, weightVars>>

InitWeight ==
    /\ unit \in {"cim", "pim"} /\ pc = "dc"
    /\ w_dcs \in SubLists(WeightDcNames, MaxDcs)
    /\ w_i = 0 /\ w_score = <<>> /\ files_read = <<>>
    /\ InitHitIdle /\ InitShapIdle /\ InitCbmIdle /\ InitProvIdle /\ InitAggIdle
    /\ InitLaterIdle

NextWeight ==
    \/ CimNoWeights
    \/ CimNoFile
    \/ \E file \in WeightFiles : CimFile(file)
    \/ PimNoWeight
    \/ PimNoFile
    \/ \E file \in WeightFiles : PimFile(file)
    \/ WeightReturn

\* compute_cim or compute_pim on one MIS directory.
SpecWeight == InitWeight /\ [][NextWeight]_vars

----------------------------------------------------------------------------
\* compute_icqa_resp.py and compute_icqa_shap.py: the responsibility-weighted and the
\* Shapley-weighted aggregator, on one query of one database.  Both read the support
\* rows support_df and the measure rows tm_db; the support rows of an answer come in
\* some order, which fixes uniq_tuples.

\* The rows of an answer in the support table, and their tuples.
SupAns(a) == {r \in support_df : r.answer_id = a}

AnswerTuples(a) == {r.tuple : r \in SupAns(a)}

\* The answers of the support table in the order of the loop (ascending here).
AnswersOf(sd) == SortedValues({r.answer_id : r \in sd}, [a \in {r.answer_id : r \in sd} |-> a])

\* The groups of sup_ans.groupby("support_id"), by ascending support_id, as tuple sets.
SupportGroups(a) ==
    LET ids == {r.support_id : r \in SupAns(a)}
        sorted == SortedValues(ids, [i \in ids |-> i])
    IN  [j \in DOMAIN sorted |-> {r.tuple : r \in {x \in SupAns(a) : x.support_id = sorted[j]}}]

\* tm_db.merge(tuple_meta, on=["relation", "pk"], how="inner")
TmAns(a) == {x \in tm_db : x.tuple \in AnswerTuples(a)}

\* w * v for the double w and v = float(r["value"]), a small integer in the model.
\* icqa[m] += w * v over the rows of tm_ans of kind m; the kinds have at most two rows
\* in the model, and the sum of two doubles does not depend on their order.
RECURSIVE WeightedSum(_, _)
WeightedSum(rows, w) ==
    IF rows = {} THEN DyZero
    ELSE LET r == CHOOSE x \in rows : TRUE
         IN  FloatAdd(WeightedSum(rows \ {r}, w), FloatTimes(r.value, w[r.tuple]))

\* icqa = {m: 0.0 for m in MEASURES} after the loop over tm_ans
IcqaOf(a, w) ==
    [m \in Range(MEASURES) |-> WeightedSum({x \in TmAns(a) : x.measure = m}, w)]

ZeroIcqa == [m \in Range(MEASURES) |-> DyZero]

\* rho[tid] = 1.0 / (1 + h_star), as a double
RespRhoDouble(ut, ss) ==
    [tid \in Range(ut) |->
        FloatDiv(1, 1 + min_hitting_set_size_for_t(ss, Len(ut), Tid2Idx(ut)[tid]))]

\* exact_shapley(support_sets, n), entry t + 1 for element t
exact_shapley(ss, n) ==
    [i \in 1..n |-> ExactAccumulate(i - 1, n, compute_v_masks(ss, n), Pow2(n) - 1)]

\* phi_by_tid = {tid: phi_list[idx] for tid, idx in tid2idx.items()}, exact mode
PhiByTid(ut, ss) ==
    LET phi_list == exact_shapley(ss, Len(ut))
    IN  [tid \in Range(ut) |-> phi_list[Tid2Idx(ut)[tid] + 1]]

\* The body of the answer loop of compute_resp_for_query (lines 130-207) for the
\* answer a whose rows give uniq_tuples = ut: the icqa part of the row appended.
RespIcqa(a, ut) ==
    LET ss == SupportSets(SupportGroups(a), Tid2Idx(ut))
    IN  IF Len(ut) = 0 \/ ss = <<>> THEN ZeroIcqa
        ELSE IF TmAns(a) = {} THEN ZeroIcqa
        ELSE IcqaOf(a, RespRhoDouble(ut, ss))

\* compute_icqa_shap_for_answer (lines 185-246); every universe of the model has at
\* most N_EXACT tuples, so the weights are those of exact_shapley.
ShapIcqa(a, ut) ==
    LET ss == SupportSets(SupportGroups(a), Tid2Idx(ut))
    IN  IF Len(ut) = 0 \/ ss = <<>> THEN ZeroIcqa
        ELSE IF TmAns(a) = {} THEN ZeroIcqa
        ELSE IcqaOf(a, PhiByTid(ut, ss))

\* resp main, lines 264-266: "if tm_db.empty: ... continue"; the database is skipped.
RespMainNoMeasures ==
    /\ unit = "respmain" /\ pc = "start"
    /\ tm_db = {}
    /\ pc' = "done"
    /\ UNCHANGED <<nonAggData, support_df, tm_db, aggVars>>

\* resp main, lines 268-281: compute_resp_for_query is called for the query.
RespMainQuery ==
    /\ unit = "respmain" /\ pc = "start"
    /\ tm_db # {}
    /\ pc' = "answers"
    /\ UNCHANGED <<nonAggData, support_df, tm_db, aggVars>>

\* One iteration of "for idx_ans, row_ans in answers.iterrows()".
RespAnswer(ut) ==
    /\ unit = "respmain" /\ pc = "answers"
    /\ agg_i < Len(AnswersOf(support_df))
    /\ LET a == AnswersOf(support_df)[agg_i + 1]
       IN  /\ ut \in Perms(AnswerTuples(a))
           /\ resp_rows' = Append(resp_rows, [answer_id |-> a, icqa |-> RespIcqa(a, ut)])
    /\ agg_orders' = Append(agg_orders, ut)
    /\ agg_i' = agg_i + 1
    /\ UNCHANGED <<nonAggData, support_df, tm_db, pc, tasks, shap_rows>>

\* return out_rows, and all_rows.extend(resp_rows)
RespMainReturn ==
    /\ unit = "respmain" /\ pc = "answers"
    /\ agg_i = Len(AnswersOf(support_df))
    /\ pc' = "done"
    /\ UNCHANGED <<nonAggData, support_df, tm_db, aggVars>>

\* shap main, lines 301-303: "if support_db.empty: ... continue"
ShapMainNoSupport ==
    /\ unit = "shapmain" /\ pc = "start"
    /\ support_df = {}
    /\ pc' = "done"
    /\ UNCHANGED <<nonAggData, support_df, tm_db, aggVars>>

\* shap main, lines 305-319: the measure rows are read.
ShapMainLoad ==
    /\ unit = "shapmain" /\ pc = "start"
    /\ support_df # {}
    /\ pc' = "answers"
    /\ UNCHANGED <<nonAggData, support_df, tm_db, aggVars>>

\* One iteration of "for _, row in qa_list.iterrows()", of lines 321-342 when tm_db is
\* empty and of lines 346-371 otherwise.
ShapAnswer(ut) ==
    /\ unit = "shapmain" /\ pc = "answers"
    /\ agg_i < Len(tasks)
    /\ LET a == tasks[agg_i + 1]
       IN  /\ ut \in Perms(AnswerTuples(a))
           /\ shap_rows' =
                  IF SupAns(a) = {} THEN shap_rows
                  ELSE IF tm_db = {}
                  THEN Append(shap_rows, [answer_id |-> a, icqa |-> ZeroIcqa])
                  ELSE Append(shap_rows, [answer_id |-> a, icqa |-> ShapIcqa(a, ut)])
    /\ agg_orders' = Append(agg_orders, ut)
    /\ agg_i' = agg_i + 1
    /\ UNCHANGED <<nonAggData, support_df, tm_db, pc, tasks, resp_rows>>

\* The loop over the database's answers is over.
ShapMainReturn ==
    /\ unit = "shapmain" /\ pc = "answers"
    /\ agg_i = Len(tasks)
    /\ pc' = "done"
    /\ UNCHANGED <<nonAggData, support_df, tm_db, aggVars>>

\* A measure table with one value per tuple and kind, possibly empty.
TmTables ==
    {tm \in SubsetsUpTo(TmRows, MaxTmRows) :
        \A x, y \in tm : (x.tuple = y.tuple /\ x.measure = y.measure) => x = y}

\* resp main takes its databases from the support store, so support_db has rows.
InitRespMain(tables) ==
    /\ unit = "respmain" /\ pc = "start"
    /\ support_df \in tables \ {{}}
    /\ tm_db \in TmTables
    /\ tasks = <<>>

\* shap main takes its answers from the prov output; the support store may lack them.
InitShapMain(tables) ==
    /\ unit = "shapmain" /\ pc = "start"
    /\ support_df \in tables
    /\ tm_db \in TmTables
    /\ tasks \in {SortedValues(T, [a \in T |-> a]) : T \in (SUBSET AnswerIds) \ {{}}}

InitAggOn(tables) ==
    /\ InitRespMain(tables) \/ InitShapMain(tables)
    /\ agg_i = 0 /\ agg_orders = <<>> /\ resp_rows = <<>> /\ shap_rows = <<>>
    /\ measured = {} /\ sum_wide = <<>> /\ all_rows = <<>>
    /\ InitHitIdle /\ InitShapIdle /\ InitCbmIdle /\ InitWeightIdle /\ InitLaterIdle

InitAgg == InitAggOn(SupportTables)

NextAgg ==
    \/ RespMainNoMeasures
    \/ RespMainQuery
    \/ \E ut \in UNION {Perms(T) : T \in SUBSET ProvTuples} : RespAnswer(ut)
    \/ RespMainReturn
    \/ ShapMainNoSupport
    \/ ShapMainLoad
    \/ \E ut \in UNION {Perms(T) : T \in SUBSET ProvTuples} : ShapAnswer(ut)
    \/ ShapMainReturn

\* The responsibility-weighted or the Shapley-weighted aggregator on one query.
SpecAgg == InitAgg /\ [][NextAgg]_vars

\* The three aggregators over the same support store and measure table.
InitScores == InitProvOn(ScoreTables) \/ InitAggOn(ScoreTables)

NextScores == NextProv \/ NextAgg

SpecScores == InitScores /\ [][NextScores]_vars

----------------------------------------------------------------------------
\* One minimal-hitting-set computation in time.  Wall-clock time passes in ticks while
\* a solver searches; how long a search takes is not in the code's hands, only whether
\* it is given a limit.  CP-SAT is given max_time_in_seconds (rim.py:83) and stops when
\* it is reached; Glucose4's solve() is called without any limit
\* (compute_icqa_resp.py:94).

\* The longest search of the model, in ticks.
MaxTicks == 3

\* compute_rim_for_dc, lines 172-176: the greedy bound, then the solver is started on
\* the filtered edges; no solver runs for an empty list.
TimedCpsatBegin ==
    /\ unit = "rimcall" /\ pc = "start"
    /\ \E ub \in greedy_hitting_set_size(edges_arg) : ub_arg' = {ub}
    /\ IF edges_arg = <<>>
       THEN pc' = "done" /\ solve_result' = <<0, "TRIVIAL">>
       ELSE pc' = "search" /\ solve_result' = solve_result
    /\ elapsed' = 0
    /\ UNCHANGED <<nonTimedData, unit, edges_arg, time_limit, call_k>>

\* solver.Solve(model) is still searching and the limit is not reached.
TimedCpsatTick ==
    /\ unit = "rimcall" /\ pc = "search"
    /\ \A b \in time_limit : elapsed < b
    /\ elapsed' = elapsed + 1
    /\ UNCHANGED <<nonTimedData, unit, pc, edges_arg, ub_arg, solve_result, time_limit, call_k>>

\* solver.Solve(model) returns: with a proof at any time, without one (FEASIBLE,
\* UNKNOWN) when the limit is reached; then lines 88-93 and the guard of lines 180-182.
TimedCpsatEnd(outcome) ==
    /\ unit = "rimcall" /\ pc = "search"
    /\ outcome \in CpSolverOutcomes(edges_arg, ub_arg)
    /\ outcome.status \in {"FEASIBLE", "UNKNOWN"} => \A b \in time_limit : elapsed = b
    /\ LET r == solve_min_hitting_set_size_cpsat(edges_arg, ub_arg, outcome)
       IN  solve_result' = IF r[1] < 0 THEN <<CHOOSE b \in ub_arg : TRUE, "TIMEOUT">> ELSE r
    /\ pc' = "done"
    /\ UNCHANGED <<nonTimedData, unit, edges_arg, ub_arg, time_limit, elapsed, call_k>>

\* min_hitting_set_size_for_t, lines 67-77, on sets_minus_t = edges_arg.
TimedGlucoseBegin ==
    /\ unit = "respcall" /\ pc = "start"
    /\ IF edges_arg = <<>> \/ \E i \in DOMAIN edges_arg : edges_arg[i] = {}
       THEN pc' = "done" /\ solve_result' = <<0>>
       ELSE pc' = "search" /\ solve_result' = solve_result
    /\ elapsed' = 0 /\ call_k' = 0
    /\ UNCHANGED <<nonTimedData, unit, edges_arg, ub_arg, time_limit>>

\* solver.solve() is still searching.
TimedGlucoseTick ==
    /\ unit = "respcall" /\ pc = "search"
    /\ elapsed < MaxTicks
    /\ elapsed' = elapsed + 1
    /\ UNCHANGED <<nonTimedData, unit, pc, edges_arg, ub_arg, solve_result, time_limit, call_k>>

\* solver.solve() returns for the bound k: "return k" if satisfiable, else the next k
\* (the bound k = n is always satisfiable, so "return n" after the loop is not reached).
TimedGlucoseEnd ==
    /\ unit = "respcall" /\ pc = "search"
    /\ IF GlucoseSolve(edges_arg, MaxTuples, call_k)
       THEN pc' = "done" /\ solve_result' = <<call_k>> /\ call_k' = call_k
       ELSE pc' = "search" /\ solve_result' = solve_result /\ call_k' = call_k + 1
    /\ UNCHANGED <<nonTimedData, unit, edges_arg, ub_arg, time_limit, elapsed>>

\* A call of either routine on an edge list; time_limit is {b} for a limit of b ticks
\* and {} where the routine takes none.
InitTimed ==
    /\ \/ unit = "rimcall" /\ time_limit \in {{b} : b \in 1..(MaxTicks - 1)}
       \/ unit = "respcall" /\ time_limit = {}
    /\ pc = "start"
    /\ edges_arg \in EdgeLists
    /\ ub_arg = {} /\ elapsed = 0 /\ call_k = 0
    /\ mis_list = <<>> /\ enable_cache = FALSE /\ sup_ans = <<>> /\ uniq_tuples = <<>>
    /\ InitIdle /\ InitShapIdle /\ InitCbmIdle /\ InitProvIdle /\ InitWeightIdle /\ InitAggIdle
    /\ InitSeqIdle /\ InitOrdIdle /\ InitGreedyIdle

NextTimed ==
    \/ TimedCpsatBegin
    \/ TimedCpsatTick
    \/ \E outcome \in CpSolverOutcomes(edges_arg, ub_arg) : TimedCpsatEnd(outcome)
    \/ TimedGlucoseBegin
    \/ TimedGlucoseTick
    \/ TimedGlucoseEnd

\* One hitting-set computation of RIM or of the responsibility aggregator, in time.
SpecTimed == InitTimed /\ [][NextTimed]_vars

----------------------------------------------------------------------------
\* compute_icqa_shap.py, main's loop over the answers that go to approx_shapley.
\* main creates one generator (line 277) and hands it to every call (line 369); each
\* rng.permutation(n) advances it.  The generator itself is not modelled: what it
\* returns at a given position of its stream may be any permutation.  Universe sizes
\* and the sample count are scaled down: every answer of this loop stands for one
\* with n > N_EXACT, and MaxSamples stands for N_SAMPLES.

\* The longest run of sampled answers.
MaxSeq == 2

\* The next answer of the task list enters approx_shapley: counts = np.zeros(n).
SeqAnswerStart(n, sets) ==
    /\ unit = "shapseq" /\ pc = "next"
    /\ seq_i < MaxSeq
    /\ seq_cur' = [n |-> n, sets |-> sets]
    /\ seq_counts' = [i \in 1..n |-> 0]
    /\ seq_samples' = 0
    /\ pc' = "sample"
    /\ UNCHANGED <<nonSeqData, rng_draws, seq_i, seq_first, seq_done>>

\* One iteration of "for _ in range(num_samples)" with main's generator.
SeqSample(perm) ==
    /\ unit = "shapseq" /\ pc = "sample"
    /\ seq_samples < MaxSamples
    /\ perm \in Perms(0..(seq_cur.n - 1))
    /\ LET w == Walk(perm, 1, support_sets_to_masks(seq_cur.sets, seq_cur.n),
                     [coalition_mask |-> 0, vC |-> 0, credited |-> <<>>, steps |-> 0])
       IN  seq_counts' = Credit(seq_counts, w.credited)
    /\ rng_draws' = rng_draws + 1
    /\ seq_samples' = seq_samples + 1
    /\ UNCHANGED <<nonSeqData, pc, seq_i, seq_cur, seq_first, seq_done>>

\* phi = (counts / num_samples).tolist(), and main goes to the next answer.
SeqAnswerReturn ==
    /\ unit = "shapseq" /\ pc = "sample"
    /\ seq_samples = MaxSamples
    /\ LET r == [n |-> seq_cur.n, sets |-> seq_cur.sets,
                 phi |-> [i \in DOMAIN seq_counts |-> FloatDiv(seq_counts[i], MaxSamples)]]
       IN  /\ seq_done' = r
           /\ seq_first' = IF seq_i = 0 THEN r ELSE seq_first
    /\ seq_i' = seq_i + 1
    /\ pc' = "next"
    /\ UNCHANGED <<nonSeqData, rng_draws, seq_cur, seq_counts, seq_samples>>

\* The task list is exhausted.
SeqMainReturn ==
    /\ unit = "shapseq" /\ pc = "next"
    /\ seq_i > 0
    /\ pc' = "done"
    /\ UNCHANGED <<nonSeqData, seqVars>>

InitSeq ==
    /\ unit = "shapseq" /\ pc = "next"
    /\ InitSeqIdle /\ InitTimeIdle /\ InitOrdIdle /\ InitGreedyIdle
    /\ InitHitIdle /\ InitShapIdle /\ InitCbmIdle /\ InitProvIdle /\ InitWeightIdle
    /\ InitAggIdle

NextSeq ==
    \/ \E n \in 1..MaxApproxN : \E sets \in AnswerFamilies(n) : SeqAnswerStart(n, sets)
    \/ \E perm \in UNION {Perms(0..(n - 1)) : n \in 1..MaxApproxN} : SeqSample(perm)
    \/ SeqAnswerReturn
    \/ SeqMainReturn

\* main of compute_icqa_shap.py over a run of sampled answers.
SpecSeq == InitSeq /\ [][NextSeq]_vars

----------------------------------------------------------------------------
\* One answer scored twice, from the same support rows supplied in two orders:
\* compute_resp_for_query lines 130-183 and compute_icqa_shap_for_answer lines
\* 192-215.  uniq_tuples is the order of first appearance of the tuples in the rows;
\* groupby("support_id") yields the sets by ascending support_id, so the order of the
\* sets is the numbering of the supports.  Both runs start from the same seed: they
\* get the same permutations of indices.

\* The support sets of a run over the indices of its tid2idx.
OrdSupportSets(k) == SupportSets(ord_sets[k], Tid2Idx(ord_ut[k]))

\* Lines 130-141 and 180-183 of compute_icqa_resp.py and lines 192-208 of
\* compute_icqa_shap.py for both runs; approx_shapley is entered (counts = zeros).
OrderStart ==
    /\ unit = "order" /\ pc = "start"
    /\ ord_w' = [rho   |-> [k \in 1..2 |-> RespRhoDouble(ord_ut[k], OrdSupportSets(k))],
                 exact |-> [k \in 1..2 |-> PhiByTid(ord_ut[k], OrdSupportSets(k))],
                 approx |-> <<>>]
    /\ ord_counts' = [k \in 1..2 |-> [i \in 1..Len(ord_ut[k]) |-> 0]]
    /\ pc' = "sample"
    /\ UNCHANGED <<nonOrdData, ord_sets, ord_ut, ord_samples>>

\* One iteration of "for _ in range(num_samples)" in each run, on the permutation the
\* seeded generator returns at this position.
OrderSample(perm) ==
    /\ unit = "order" /\ pc = "sample"
    /\ ord_samples < MaxSamples
    /\ perm \in Perms(0..(Len(ord_ut[1]) - 1))
    /\ ord_counts' =
         [k \in 1..2 |->
            LET w == Walk(perm, 1, support_sets_to_masks(OrdSupportSets(k), Len(ord_ut[k])),
                          [coalition_mask |-> 0, vC |-> 0, credited |-> <<>>, steps |-> 0])
            IN  Credit(ord_counts[k], w.credited)]
    /\ ord_samples' = ord_samples + 1
    /\ UNCHANGED <<nonOrdData, pc, ord_sets, ord_ut, ord_w>>

\* phi = (counts / num_samples).tolist() and the map back to tuple ids (line 214).
OrderReturn ==
    /\ unit = "order" /\ pc = "sample"
    /\ ord_samples = MaxSamples
    /\ ord_w' = [ord_w EXCEPT !.approx =
                    [k \in 1..2 |->
                       [tid \in Range(ord_ut[k]) |->
                          FloatDiv(ord_counts[k][Tid2Idx(ord_ut[k])[tid] + 1], MaxSamples)]]]
    /\ pc' = "done"
    /\ UNCHANGED <<nonOrdData, ord_sets, ord_ut, ord_counts, ord_samples>>

\* The families of an answer over the tuple ids 1..n.
TupleFamilies(n) ==
    {[i \in DOMAIN ss |-> {x + 1 : x \in ss[i]}] : ss \in AnswerFamilies(n)}

\* The first run has its rows in ascending order of tuple id and support_id, the
\* second in any order.
InitOrder ==
    /\ unit = "order" /\ pc = "start"
    /\ \E n \in 1..MaxApproxN :
       \E sets \in TupleFamilies(n) :
       \E ut \in Perms(1..n) :
       \E q \in Perms(DOMAIN sets) :
         /\ ord_sets = <<sets, [i \in DOMAIN sets |-> sets[q[i]]]>>
         /\ ord_ut = <<[i \in 1..n |-> i], ut>>
    /\ ord_counts = <<>> /\ ord_samples = 0 /\ ord_w = <<>>
    /\ InitSeqIdle /\ InitTimeIdle /\ InitGreedyIdle
    /\ InitHitIdle /\ InitShapIdle /\ InitCbmIdle /\ InitProvIdle /\ InitWeightIdle
    /\ InitAggIdle

NextOrder ==
    \/ OrderStart
    \/ \E perm \in UNION {Perms(0..(n - 1)) : n \in 1..MaxApproxN} : OrderSample(perm)
    \/ OrderReturn

\* The weights of one answer from its support rows in two orders.
SpecOrder == InitOrder /\ [][NextOrder]_vars


----------------------------------------------------------------------------
\* Claims about the hitting-set solver and the responsibility engine (under Spec).

NodeSet == {node_id[tk] : tk \in universe}

\* C1: solve_min_hitting_set_size_cpsat returns (0, TRIVIAL) for an empty edge list,
\* and when it returns OPTIMAL for non-empty edges the size is the minimum size of a
\* set of nodes hitting every edge, with or without the bound obj <= greedy size.
SolveOptimalIsMinimum ==
    (unit = "solve" /\ pc = "done") =>
        /\ edges_arg = <<>> => solve_result = <<0, "TRIVIAL">>
        /\ (solve_result[2] = "OPTIMAL" /\ \A i \in DOMAIN edges_arg : edges_arg[i] # {})
              => solve_result[1] = MinHittingSetSize(edges_arg, UNION Range(edges_arg))

\* A bounded call that proved the optimum 2 (two disjoint edges).
SolveOptimalWitness ==
    /\ unit = "solve" /\ pc = "done"
    /\ ub_arg # {}
    /\ solve_result = <<2, "OPTIMAL">>

\* C2: every size g that compute_rim_for_dc records after running greedy and the
\* solver satisfies 0 <= g <= n, and some set of exactly g nodes hits every filtered
\* edge, whatever the solver outcome.
RimGammaIsHittingSize ==
    unit = "rim" =>
        \A t \in DOMAIN solver_log :
            LET g == gamma_details[t].gamma
            IN  /\ 0 <= g /\ g <= Cardinality(universe)
                /\ \E X \in SUBSET NodeSet :
                      Cardinality(X) = g /\ IsHittingSet(X, FilteredEdges(t))

\* The solver timed out and the greedy bound 3 was recorded.
RimGammaWitness ==
    /\ unit = "rim"
    /\ \E t \in DOMAIN solver_log :
          /\ solver_log[t].cp_status = "UNKNOWN"
          /\ gamma_details[t].gamma = 3

\* C3: when the solver ends without a solution the recorded size is the greedy bound
\* with status TIMEOUT, and every GammaResult with status OPTIMAL or TRIVIAL, cached
\* ones included, carries the true minimum hitting-set size of its filtered edges.
RimStatusTellsExact ==
    unit = "rim" =>
        /\ \A t \in DOMAIN solver_log :
              solver_log[t].cp_status \in {"UNKNOWN", "INFEASIBLE"} =>
                  /\ gamma_details[t].gamma = solver_log[t].ub
                  /\ gamma_details[t].status = "TIMEOUT"
        /\ \A t \in DOMAIN gamma_details :
              gamma_details[t].status \in {"OPTIMAL", "TRIVIAL"} =>
                  gamma_details[t].gamma = MinHittingSetSize(FilteredEdges(t), NodeSet)

\* A tuple was served from the cache a greedy size above the minimum, flagged
\* TIMEOUT, and another tuple has a size proved OPTIMAL.
RimStatusWitness ==
    /\ unit = "rim"
    /\ \E t \in DOMAIN gamma_details \ DOMAIN solver_log :
          /\ gamma_details[t].status = "TIMEOUT"
          /\ gamma_details[t].gamma > MinHittingSetSize(FilteredEdges(t), NodeSet)
    /\ \E t \in DOMAIN solver_log :
          gamma_details[t].status = "OPTIMAL" /\ gamma_details[t].gamma >= 2

\* C4: with universe size n, every rho computed by compute_rim_for_dc and by
\* compute_resp_for_query lies in [1/(1+n), 1], and the RIM denominator (the sum of
\* rho over a non-empty universe) is strictly positive.
RhoWithinBounds ==
    LET n == IF unit = "rim" THEN Cardinality(universe) ELSE n_resp
    IN  /\ \A t \in DOMAIN rho :
              FracLeq(Frac(1, 1 + n), rho[t]) /\ FracLeq(rho[t], FracInt(1))
        /\ (unit = "rim" /\ universe # {} /\ DOMAIN rho = universe)
              => FracSum(universe, rho).num > 0

\* A finished RIM run in which some rho is 1/3 and another is 1/4 (gamma 2 and 3).
RhoBoundsWitness ==
    /\ unit = "rim" /\ pc = "done"
    /\ \E t \in DOMAIN rho : rho[t] = Frac(1, 3)
    /\ \E t \in DOMAIN rho : rho[t] = Frac(1, 4)

\* The support sets of the answer that do not contain tid.
SupportsWithout(tid) == SelectSeq(sup_ans, LAMBDA S : tid \notin S)

\* C5: in responsibility-weighted ICQA, rho(t) = 1/(1 + h) where h is the exact minimum
\* size of a set of universe tuples hitting every support set without t (0 when
\* there is none); for the supports {A,B}, {A,C}: rho(A) = 1, rho(B) = rho(C) = 1/2.
RespRhoIsExact ==
    unit = "resp" =>
        /\ \A tid \in DOMAIN rho :
              rho[tid] = Frac(1, 1 + MinHittingSetSize(SupportsWithout(tid), Range(uniq_tuples)))
        /\ (pc = "done" /\ sup_ans = <<{1, 2}, {1, 3}>>)
              => (rho[1] = Frac(1, 1) /\ rho[2] = Frac(1, 2) /\ rho[3] = Frac(1, 2))

\* The scenario {A,B}, {A,C} has been scored.
RespRhoWitness ==
    /\ unit = "resp" /\ pc = "done"
    /\ sup_ans = <<{1, 2}, {1, 3}>>
    /\ rho[2] = Frac(1, 2)

\* C8: for a non-empty MIS list the contributions returned by compute_rim_for_dc sum
\* to m = len(mis_list).
RimContribSumsToM ==
    (unit = "rim" /\ pc = "done" /\ Len(mis_list) > 0) =>
        FracSum(DOMAIN rim_contrib, rim_contrib) = FracInt(Len(mis_list))

\* The sum is m whenever some MIS of the list has a tuple (not a claim's formula).
RimContribSumsToMOnTuples ==
    (unit = "rim" /\ pc = "done" /\ universe # {}) =>
        FracSum(DOMAIN rim_contrib, rim_contrib) = FracInt(Len(mis_list))

\* C14: a MIS list that holds a witness set without elements is rejected: the run
\* records no hitting-set size, no rho and no contribution for it.
RimRejectsEmptyEdge ==
    (unit = "rim" /\ \E i \in DOMAIN mis_list : mis_list[i] = {}) =>
        /\ gamma_details = <<>> /\ rho = <<>> /\ rim_contrib = <<>>

\* A finished run on a list with an empty witness set that returned contributions.
RimScoresDespiteEmptyEdge ==
    /\ unit = "rim" /\ pc = "done"
    /\ \E i \in DOMAIN mis_list : mis_list[i] = {}
    /\ rim_contrib # <<>>

----------------------------------------------------------------------------
\* Claims about the Shapley engine (under SpecShap).

\* v_mask is monotone along every single-element extension, so a marginal
\* contribution vCt - vC that is not 0 is 1 (what ExactAccumulate relies on).
VMaskMonotone ==
    (unit = "shap" /\ mode = "exact") =>
        \A mask \in 0..(Pow2(shap_n) - 1) : \A t \in 0..(shap_n - 1) :
            v_mask[mask + 1] <= v_mask[BitOr(mask, Pow2(t)) + 1]

ExactFinished == unit = "shap" /\ pc = "done" /\ mode = "exact"

\* C6 (as stated): for every answer with universe size 1 <= n <= 14 whose witness sets
\* are non-empty subsets of the universe, the doubles returned by exact_shapley add up
\* to exactly 1.
ExactShapleySumsToExactlyOne == ExactFinished => DyIsOne(DySum(phi))

\* C6 (amended): for every such answer the doubles returned by exact_shapley add up to
\* 1 up to the rounding of the float operations: their exact sum differs from 1 by
\* less than 2^-30 (< 1e-9).
ExactShapleySumsToOneRounded == ExactFinished => DyNearOne(DySum(phi))

\* An answer with witness sets {0} and {1, 2} finished by exact_shapley: the three
\* values add up to a number near 1 that is not 1.
ExactShapleyWitness ==
    /\ ExactFinished
    /\ shap_n = 3 /\ Range(shap_sets) = {{0}, {1, 2}}
    /\ DyNearOne(DySum(phi)) /\ ~DyIsOne(DySum(phi))

NonEmptySupportSets == \A i \in DOMAIN shap_sets : shap_sets[i] # {}

\* The first position of perm at which the elements walked so far meet every
\* witness set.
FirstHitPosition(perm) ==
    SetMin({p \in 1..Len(perm) :
               \A i \in DOMAIN shap_sets :
                   {perm[q] : q \in 1..p} \cap shap_sets[i] # {}})

RECURSIVE SeqSum(_)
SeqSum(xs) == IF xs = <<>> THEN 0 ELSE xs[Len(xs)] + SeqSum(SubSeq(xs, 1, Len(xs) - 1))

----------------------------------------------------------------------------
\* Claims about the constraint-based measure (under SpecCbm).

\* The tuples a MIS file can name.
CbmTupleKeys == {<<rel, <<k>>>> : rel \in Relations, k \in 1..MaxPk}

\* The constraints done with whose file names the tuple in at least one witness set.
ConstraintsNaming(tk) == {d \in 1..Len(seen_by_dc) : tk \in seen_by_dc[d]}

\* C10: compute_cbm gives every tuple the number of constraints in whose file it
\* occurs in at least one witness set (and no entry to a tuple that occurs in none),
\* however many witness sets of a constraint name it and however often.
CbmCountsConstraints ==
    (unit = "cbm" /\ pc \in {"dc", "done"}) =>
        /\ Len(seen_by_dc) = dc_i
        /\ DOMAIN score = {tk \in CbmTupleKeys : ConstraintsNaming(tk) # {}}
        /\ \A tk \in DOMAIN score : score[tk] = Cardinality(ConstraintsNaming(tk))

\* Two constraints done: one tuple is named by both files, more than once by the
\* second, and scores 2; another is named by one file only and scores 1.
CbmCountsWitness ==
    /\ unit = "cbm" /\ pc = "done" /\ Len(dcs) = 2
    /\ \E tk \in DOMAIN score : score[tk] = 2 /\ tk \in repeated
    /\ \E tk \in DOMAIN score : score[tk] = 1

----------------------------------------------------------------------------
\* Claims about the provenance-sum aggregator (under SpecProv).

\* The tuple's measure value of a kind; a tuple without a row of the kind adds nothing.
TupleValue(t, m) ==
    LET rows == {x \in tm_db : x.tuple = t /\ x.measure = m}
    IN  IF rows = {} THEN 0 ELSE (CHOOSE x \in rows : TRUE).value

\* The sum of the tuples' values over the (witness set, tuple) occurrences of rows.
OccurrenceSum(rows, m) == SetSum(rows, [r \in rows |-> TupleValue(r.tuple, m)])

RowsOfAnswer(a) == {r \in support_df : r.answer_id = a}

\* C9: the provenance-sum score of every answer for every measure kind is the sum of
\* the tuple's measure value over all (witness set, tuple) occurrences of the answer,
\* witness set by witness set without deduplication; so a witness set repeated under
\* a new id adds exactly its own contribution once more.
ProvScoreIsOccurrenceSum ==
    (unit = "prov" /\ pc = "done") =>
        \A a \in {r.answer_id : r \in support_df} : \A m \in Range(MEASURES) :
            \E i \in DOMAIN all_rows :
                /\ all_rows[i].answer_id = a
                /\ m \in DOMAIN all_rows[i].icqa
                /\ all_rows[i].icqa[m] = {OccurrenceSum(RowsOfAnswer(a), m)}

\* Where an output row holds a number for a kind, the number is the occurrence sum.
ProvScoreIsOccurrenceSumWhereNumber ==
    unit = "prov" =>
        \A i \in DOMAIN all_rows : \A m \in DOMAIN all_rows[i].icqa :
            all_rows[i].icqa[m] # {} =>
                all_rows[i].icqa[m] = {OccurrenceSum(RowsOfAnswer(all_rows[i].answer_id), m)}

\* An answer whose two witness sets hold the same tuple scores twice the tuple's value.
ProvRepeatedWitnessSetCounted ==
    /\ unit = "prov" /\ pc = "done"
    /\ \E i \in DOMAIN all_rows : \E r1, r2 \in RowsOfAnswer(all_rows[i].answer_id) :
          /\ r1.support_id # r2.support_id /\ r1.tuple = r2.tuple
          /\ RowsOfAnswer(all_rows[i].answer_id) = {r1, r2}
          /\ "CBM" \in DOMAIN all_rows[i].icqa
          /\ all_rows[i].icqa["CBM"] = {2 * TupleValue(r1.tuple, "CBM")}
          /\ TupleValue(r1.tuple, "CBM") = 2

\* An answer without a measure row of a kind that another answer has: its cell is NaN.
ProvMissingCell ==
    /\ unit = "prov" /\ pc = "done"
    /\ \E i \in DOMAIN all_rows : \E m \in DOMAIN all_rows[i].icqa :
          /\ all_rows[i].icqa[m] = {}
          /\ OccurrenceSum(RowsOfAnswer(all_rows[i].answer_id), m) = 0

\* The measure kinds none of the answer's tuples has a measure row of.
KindsWithoutMeasure(a) ==
    {m \in Range(MEASURES) :
        \A r \in RowsOfAnswer(a) : \A x \in tm_db : ~(x.tuple = r.tuple /\ x.measure = m)}

\* C12: when the query is done, every answer has an output row that holds the number
\* 0 (not NaN, not a missing column) for every measure kind none of the answer's
\* tuples has a measure row of, whatever the other answers of the query match.
ProvZeroWithoutMeasure ==
    (unit = "prov" /\ pc = "done") =>
        \A a \in {r.answer_id : r \in support_df} : \A m \in KindsWithoutMeasure(a) :
            \E i \in DOMAIN all_rows :
                /\ all_rows[i].answer_id = a
                /\ m \in DOMAIN all_rows[i].icqa
                /\ all_rows[i].icqa[m] = {0}

\* An answer none of whose tuples has a measure row, beside an answer with one: it has
\* no output row.
ProvAnswerWithoutRow ==
    /\ unit = "prov" /\ pc = "done"
    /\ \E a \in {r.answer_id : r \in support_df} :
          /\ KindsWithoutMeasure(a) = Range(MEASURES)
          /\ \A i \in DOMAIN all_rows : all_rows[i].answer_id # a
          /\ all_rows # <<>>

----------------------------------------------------------------------------
\* Claims about the weighted counting measures (under SpecWeight).

\* x < y for dyadic numbers.
DyLess(x, y) ==
    IF y.m = <<>> THEN FALSE
    ELSE IF x.m = <<>> THEN TRUE
    ELSE \/ x.e < y.e
         \/ /\ x.e = y.e
            /\ \E i \in 1..(Len(x.m) + Len(y.m)) :
                 /\ DyBit(x, i) < DyBit(y, i)
                 /\ \A j \in 1..(i - 1) : DyBit(x, j) = DyBit(y, j)

\* |x - y| < 2^-30
DyClose(x, y) ==
    LET eps == [e |-> -29, m |-> <<1>>]
    IN  DyLess(x, DyAdd(y, eps)) /\ DyLess(y, DyAdd(x, eps))

\* The number of witness sets of the d-th constraint's file that hold the tuple.
WitnessSetsWith(d, tk) == files_read[d][tk]

\* w(constraint, relation) for CIM, w(constraint) for PIM; 0 where the table has none.
WeightOf(d, tk) ==
    IF unit = "cim"
    THEN CimWeight(IF w_dcs[d] \in DOMAIN CIM_WEIGHTS THEN CIM_WEIGHTS[w_dcs[d]] ELSE <<>>,
                   tk[1])
    ELSE PimWeight(w_dcs[d])

\* The score of a tuple, 0 for a tuple without an entry.
WeightScore(tk) == IF tk \in DOMAIN w_score THEN w_score[tk] ELSE DyZero

\* k * w of the first d constraints, added up as doubles in the order of dcs.
RECURSIVE SumOfProducts(_, _)
SumOfProducts(d, tk) ==
    IF d = 0 THEN DyZero
    ELSE FloatAdd(SumOfProducts(d - 1, tk),
                  FloatTimes(WitnessSetsWith(d, tk), WeightOf(d, tk)))

\* k * w of the first d constraints, added up without any rounding.
RECURSIVE ExactSumOfProducts(_, _)
ExactSumOfProducts(d, tk) ==
    IF d = 0 THEN DyZero
    ELSE DyAdd(ExactSumOfProducts(d - 1, tk),
               DyTimes(WitnessSetsWith(d, tk), WeightOf(d, tk)))

\* w added k times to acc, each addition rounded.
RECURSIVE AddRepeatedly(_, _, _)
AddRepeatedly(acc, k, w) ==
    IF k = 0 THEN acc ELSE FloatAdd(AddRepeatedly(acc, k - 1, w), w)

\* The weight of every witness set holding the tuple, added one at a time as doubles,
\* constraint after constraint in the order of dcs.
RECURSIVE SumOfOccurrences(_, _)
SumOfOccurrences(d, tk) ==
    IF d = 0 THEN DyZero
    ELSE AddRepeatedly(SumOfOccurrences(d - 1, tk), WitnessSetsWith(d, tk), WeightOf(d, tk))

WeightAtBoundary == unit \in {"cim", "pim"} /\ pc \in {"dc", "done"}

----------------------------------------------------------------------------
\* Claims about the responsibility and Shapley aggregators (under SpecAgg).

\* The answers the aggregator is to score, and its output rows.
AggAnswers == IF unit = "respmain" THEN {r.answer_id : r \in support_df} ELSE Range(tasks)

AggRows == IF unit = "respmain" THEN resp_rows ELSE shap_rows

AggDone == unit \in {"respmain", "shapmain"} /\ pc = "done"

\* C13: when the aggregator is done, every answer that has no witness sets, or none of
\* whose tuples has a measure row (the measure table may be empty altogether), has
\* exactly one output row, and the four scores of that row are 0.
AggZeroRowWithoutMatch ==
    AggDone =>
        \A a \in AggAnswers :
            (SupAns(a) = {} \/ TmAns(a) = {}) =>
                /\ Cardinality({i \in DOMAIN AggRows : AggRows[i].answer_id = a}) = 1
                /\ \A i \in DOMAIN AggRows :
                      AggRows[i].answer_id = a => AggRows[i].icqa = ZeroIcqa

\* The rows that are written for such answers do hold four zeros.
AggRowsWithoutMatchAreZero ==
    unit \in {"respmain", "shapmain"} =>
        \A i \in DOMAIN AggRows :
            TmAns(AggRows[i].answer_id) = {} => AggRows[i].icqa = ZeroIcqa

\* The responsibility aggregator ends without a row: the database has no measure rows.
RespMainSkipsDatabase ==
    /\ unit = "respmain" /\ pc = "done" /\ tm_db = {} /\ resp_rows = <<>>

\* The Shapley aggregator ends without a row for a task answer that has no support
\* rows, beside an answer that has its row.
ShapMainSkipsAnswer ==
    /\ unit = "shapmain" /\ pc = "done" /\ shap_rows # <<>>
    /\ \E a \in Range(tasks) :
          SupAns(a) = {} /\ \A i \in DOMAIN shap_rows : shap_rows[i].answer_id # a

\* Whether the timed call ended because its limit was reached and not because the
\* solver had decided.
TimedCallSearching == unit \in {"rimcall", "respcall"} /\ pc = "search"

\* RIM's half of C15: CP-SAT never searches past its limit, and a call that ends
\* undecided returns the greedy bound marked TIMEOUT.
CpsatCallWithinBudget ==
    unit = "rimcall" =>
        /\ pc = "search" => \A b \in time_limit : elapsed <= b
        /\ time_limit # {}
        /\ (pc = "done" /\ solve_result[2] = "TIMEOUT") =>
               /\ solve_result[1] \in ub_arg
               /\ time_limit = {elapsed}

\* C15: every hitting-set computation, of RIM and of the responsibility aggregator
\* alike, runs under a time limit of its own: a search in progress has a limit and has
\* not run past it.
CallsRunUnderBudget ==
    TimedCallSearching => (time_limit # {} /\ \A b \in time_limit : elapsed <= b)

\* A search of min_hitting_set_size_for_t that has run for the longest time of the
\* model, and one of CP-SAT stopped at its limit.
GlucoseSearchUnbounded == unit = "respcall" /\ pc = "search" /\ elapsed = MaxTicks

CpsatStoppedAtLimit ==
    unit = "rimcall" /\ pc = "done" /\ solve_result # <<>> /\ solve_result[2] = "TIMEOUT"

\* compute_rim_for_dc has returned through "if denom <= 0: return {}, gamma_details"
\* for a constraint that has witness sets.
RimReturnedDegenerate ==
    /\ unit = "rim" /\ pc = "done"
    /\ Len(mis_list) > 0
    /\ FracSum(universe, rho).num <= 0

\* approx_shapley has walked a permutation to its end without reaching v = 1 and has
\* gone on to the next sample or to the return.
ApproxWalkNeverHit ==
    /\ unit = "approx" /\ pc \in {"approx", "done"}
    /\ last_walk # <<>>
    /\ last_walk.credited = <<>>

\* C16: a violated invariant ends the computation with an error: no run returns
\* normally from a constraint that has witness sets and a rho sum <= 0, and none goes
\* on after a sampled permutation that never reached v = 1.
InvariantViolationIsAnError == ~RimReturnedDegenerate /\ ~ApproxWalkNeverHit

\* The same for the sampling routine alone.
ApproxWalkWithoutHitIsAnError == ~ApproxWalkNeverHit

\* The answer just done with has the witness sets and the universe size of the answer
\* that was processed first.
SeqSameUnitAsFirst ==
    /\ unit = "shapseq" /\ seq_done # <<>>
    /\ seq_done.n = seq_first.n /\ seq_done.sets = seq_first.sets

\* C17: the Shapley weights of an answer depend on its own witness sets only and not
\* on the answers processed before it: an answer with the witness sets of the answer
\* processed first gets the weights that one got, wherever it stands in the run.
ShapleyIndependentOfOrder == SeqSameUnitAsFirst => seq_done.phi = seq_first.phi

\* An answer processed after another got weights from later draws of the generator.
ShapleyAfterOthers == SeqSameUnitAsFirst /\ seq_i > 1 /\ rng_draws > MaxSamples

OrderDone == unit = "order" /\ pc = "done"

\* C18: for a fixed family of witness sets every tuple gets the same weight from
\* every order of the rows and of the sets: the same rho, the same exact Shapley value
\* and, from the same seed, the same sampled Shapley value.
WeightsIndependentOfRowOrder ==
    OrderDone => /\ ord_w.rho[1] = ord_w.rho[2]
                 /\ ord_w.exact[1] = ord_w.exact[2]
                 /\ ord_w.approx[1] = ord_w.approx[2]

\* The part of it that holds for the universes of the model: rho and the exact
\* Shapley values.
RhoAndExactIndependentOfRowOrder ==
    OrderDone => /\ ord_w.rho[1] = ord_w.rho[2]
                 /\ ord_w.exact[1] = ord_w.exact[2]

\* Two runs whose rows name the tuples in different orders.
RowOrdersDiffer == OrderDone /\ ord_ut[1] # ord_ut[2] /\ ord_sets[1] # ord_sets[2]

\* Two edge lists are equal as multisets.
SameEdgeMultiset(f, g) ==
    \A e \in Range(f) \cup Range(g) :
        Cardinality({i \in DOMAIN f : f[i] = e}) = Cardinality({i \in DOMAIN g : g[i] = e})

\* The tuple's iteration ran greedy and the solver (it has an entry in the log).
RimSolvedFor(t) == t \in DOMAIN solver_log

\* C19: with the cache enabled, two tuples of a constraint whose filtered edges are
\* equal as multisets have the same signature and the same (size, status); the solver
\* ran for one of them only, and a tuple it did not run for has such an earlier tuple;
\* and every pair in the cache was stored by a solver run of this constraint, none is
\* left from another.
RimCacheReusesWithinConstraint ==
    (unit = "rim" /\ enable_cache /\ pc \in {"loop", "done"} /\ Len(mis_list) > 0) =>
        /\ \A t \in DOMAIN rho : \A u \in DOMAIN rho :
              SameEdgeMultiset(FilteredEdges(t), FilteredEdges(u)) =>
                 /\ EdgeSignature(FilteredEdges(t)) = EdgeSignature(FilteredEdges(u))
                 /\ gamma_details[t].gamma = gamma_details[u].gamma
                 /\ gamma_details[t].status = gamma_details[u].status
                 /\ t # u => ~(RimSolvedFor(t) /\ RimSolvedFor(u))
        /\ \A u \in DOMAIN rho :
              ~RimSolvedFor(u) =>
                 \E t \in DOMAIN solver_log :
                    SameEdgeMultiset(FilteredEdges(t), FilteredEdges(u))
        /\ \A sig \in DOMAIN cache :
              \E t \in DOMAIN solver_log :
                 /\ sig = EdgeSignature(FilteredEdges(t))
                 /\ cache[sig] = <<gamma_details[t].gamma, gamma_details[t].status>>

\* A tuple got the pair the solver found for another tuple with the same edges, in a
\* constraint scored after one that had left a pair for that very signature.
RimCacheReuseWitness ==
    /\ unit = "rim" /\ enable_cache /\ pc = "done"
    /\ \E t \in DOMAIN rho : \E u \in DOMAIN rho :
          /\ t # u
          /\ FilteredEdges(t) # <<>>
          /\ SameEdgeMultiset(FilteredEdges(t), FilteredEdges(u))
          /\ RimSolvedFor(t) /\ ~RimSolvedFor(u)
          /\ gamma_details[u].status = "FEASIBLE"

\* The engine has scored both tuples of the unit whose one witness set is {A, B},
\* A = 1 and B = 2.
PairUnitScored ==
    /\ \/ unit = "rim" /\ mis_list = <<{1, 2}>>
       \/ unit = "resp" /\ sup_ans = <<{1, 2}>>
    /\ DOMAIN rho = {1, 2}

\* C20 as stated: for the universe {A, B} with the single witness set {A, B},
\* rho(A) = rho(B) = 0.5.
PairRhoIsHalf == PairUnitScored => (rho[1] = Frac(1, 2) /\ rho[2] = Frac(1, 2))

\* C20, amended: for the universe {A, B} with the single witness set {A, B},
\* rho(A) = rho(B) = 1, no edge being left once the edges with the tuple are taken
\* out; 0.5 is the contribution RIM returns for each after normalisation.
PairRhoIsOne ==
    PairUnitScored =>
        /\ rho[1] = Frac(1, 1) /\ rho[2] = Frac(1, 1)
        /\ (unit = "rim" /\ pc = "done") =>
               (rim_contrib[1] = Frac(1, 2) /\ rim_contrib[2] = Frac(1, 2))

\* The responsibility aggregator's loop is done for that answer.
PairRhoWitness == PairUnitScored /\ unit = "resp" /\ pc = "done"

\* RIM has returned for that constraint.
PairRimWitness == PairUnitScored /\ unit = "rim" /\ pc = "done"

\* The witness sets of the unit the responsibility engine runs on.
UnitWitnessSets == IF unit = "rim" THEN mis_list ELSE sup_ans

RhoUnit == unit \in {"rim", "resp"}

\* C21 as stated: rho(t) = 1 if and only if some witness set of the unit equals {t}.
RhoOneIffSingleton ==
    RhoUnit =>
        \A t \in DOMAIN rho :
            rho[t] = Frac(1, 1) <=> \E i \in DOMAIN UnitWitnessSets : UnitWitnessSets[i] = {t}

\* C21, amended: rho(t) = 1 if and only if every non-empty witness set of the unit
\* holds t.
RhoOneIffInEverySet ==
    RhoUnit =>
        \A t \in DOMAIN rho :
            rho[t] = Frac(1, 1) <=>
                \A i \in DOMAIN UnitWitnessSets :
                    UnitWitnessSets[i] # {} => t \in UnitWitnessSets[i]

\* A unit with two witness sets scored to the end in which a tuple has rho = 1 and no
\* witness set of its own.
RhoOneWitness ==
    /\ RhoUnit /\ pc = "done"
    /\ Len(UnitWitnessSets) > 1
    /\ \E t \in DOMAIN rho :
          /\ rho[t] = Frac(1, 1)
          /\ \A i \in DOMAIN UnitWitnessSets : UnitWitnessSets[i] # {t}

\* A unit scored to the end in which a tuple has a witness set of its own and rho < 1.
RhoBelowOneWithOwnSet ==
    /\ RhoUnit /\ pc = "done"
    /\ \E u \in DOMAIN rho :
          /\ rho[u] # Frac(1, 1)
          /\ \E i \in DOMAIN UnitWitnessSets : UnitWitnessSets[i] = {u}

----------------------------------------------------------------------------
\* Claims about the three aggregators on one family (under SpecScores).

\* The double that holds the whole number c.
DoubleOf(c) == FloatTimes(c, FloatDiv(1, 1))

\* The output rows of the aggregator that ran.
ScoreRows ==
    IF unit = "prov" THEN all_rows ELSE IF unit = "respmain" THEN resp_rows ELSE shap_rows

\* The answers the aggregator that ran is to score.
ScoreAnswers ==
    IF unit = "shapmain" THEN Range(tasks) ELSE {r.answer_id : r \in support_df}

\* Whether the finished aggregator wrote for answer a, kind m, the score the family of
\* k identical singleton witness sets of a tuple of value c is to have.
SingletonScoreWritten(a, m, k, c) ==
    \E i \in DOMAIN ScoreRows :
        /\ ScoreRows[i].answer_id = a
        /\ m \in DOMAIN ScoreRows[i].icqa
        /\ ScoreRows[i].icqa[m] = IF unit = "prov" THEN {k * c} ELSE DoubleOf(c)

\* C22: for an answer whose family is k >= 1 identical singleton witness sets {A},
\* where A has measure value c for a measure kind, the provenance-sum score of the
\* kind is k * c, and the responsibility-weighted and the Shapley-weighted scores are
\* both c.
RepeatedSingletonScores ==
    (unit \in {"prov", "respmain", "shapmain"} /\ pc = "done") =>
        \A a \in ScoreAnswers : \A x \in tm_db :
            AnswerTuples(a) = {x.tuple} =>
                SingletonScoreWritten(a, x.measure, Cardinality(SupAns(a)), x.value)

\* An answer of three witness sets {A}, A of value 2: the aggregator wrote its score.
RepeatedSingletonDone(u) ==
    /\ unit = u /\ pc = "done"
    /\ \E a \in ScoreAnswers : \E x \in tm_db :
          /\ AnswerTuples(a) = {x.tuple} /\ Cardinality(SupAns(a)) = 3 /\ x.value = 2
          /\ SingletonScoreWritten(a, x.measure, 3, 2)

\* The Shapley-weighted score of the family is 2, ...
RepeatedSingletonShapWitness == RepeatedSingletonDone("shapmain")

\* ... the responsibility-weighted score is 2 ...
RepeatedSingletonRespWitness == RepeatedSingletonDone("respmain")

\* ... and the provenance sum is 6.
RepeatedSingletonProvWitness == RepeatedSingletonDone("prov")

----------------------------------------------------------------------------
\* Claims about the coalition value function (under SpecVMask).

VMaskReturned == unit = "vmask" /\ pc = "done"

\* v(C) of the returned list, C a bit mask.
VOf(C) == v_mask[C + 1]

\* C23: the value function computed by _compute_v_masks is monotone (C a subset of
\* D gives v(C) <= v(D)), so every marginal contribution v(C + t) - v(C) is 0 or 1;
\* v of the empty coalition is 0 whenever there is at least one witness set, and v of
\* the full universe is 1 whenever every witness set is non-empty.
ValueFunctionMonotone ==
    VMaskReturned =>
        LET full == Pow2(shap_n) - 1
        IN  /\ \A C, D \in 0..full : BitAnd(C, D) = C => VOf(C) <= VOf(D)
            /\ \A C \in 0..full : \A t \in 0..(shap_n - 1) :
                    VOf(BitOr(C, Pow2(t))) - VOf(C) \in {0, 1}
            /\ shap_sets # <<>> => VOf(0) = 0
            /\ (\A i \in DOMAIN shap_sets : shap_sets[i] # {}) => VOf(full) = 1

\* Two different witness sets over three elements: some coalition of two elements
\* has value 0, another has value 1, and a marginal contribution of 1 occurs.
ValueFunctionWitness ==
    /\ VMaskReturned /\ shap_n = 3 /\ Len(shap_sets) = 2 /\ shap_sets[1] # shap_sets[2]
    /\ \E C, D \in 0..(Pow2(shap_n) - 1) :
          popcount(C) = 2 /\ popcount(D) = 2 /\ VOf(C) = 0 /\ VOf(D) = 1
    /\ \E C \in 0..(Pow2(shap_n) - 1) : \E t \in 0..(shap_n - 1) :
          VOf(BitOr(C, Pow2(t))) - VOf(C) = 1

\* The conditions of the two boundary values matter: without a witness set the empty
\* coalition has value 1, and with an empty witness set the full universe has value 0.
ValueFunctionBoundaryCases ==
    /\ VMaskReturned /\ shap_n > 0
    /\ \/ shap_sets = <<>> /\ VOf(0) = 1
       \/ (\E i \in DOMAIN shap_sets : shap_sets[i] = {}) /\ VOf(Pow2(shap_n) - 1) = 0

----------------------------------------------------------------------------
\* Claims about failures of the constant-weight measures (under SpecCbm).

----------------------------------------------------------------------------
\* Claims about the greedy bound (under SpecGreedyFair).

GreedyReturned == unit = "greedy" /\ pc = "done"

\* The non-empty edges of the argument.
GreedyEdges == SelectSeq(g_edges, LAMBDA e : e # {})

\* What the returned count is: the size of a set hitting every non-empty edge, at
\* least the minimum and at most the number of non-empty edges; and the exact model
\* with "objective <= count" added still has a solution of minimum size.
GreedyCountIsBound ==
    GreedyReturned =>
        /\ Cardinality(picked) = g_size
        /\ IsHittingSet(picked, GreedyEdges)
        /\ g_size >= MinHittingSetSize(GreedyEdges, UNION Range(GreedyEdges))
        /\ g_size <= Len(GreedyEdges)
        /\ \E X \in CpsatFeasible(GreedyEdges, {g_size}) :
              Cardinality(X) = MinHittingSetSize(GreedyEdges, UNION Range(GreedyEdges))

\* C25: greedy_hitting_set_size terminates on every finite edge list, every round
\* removing at least one uncovered edge; the count it returns is the size of a set
\* that intersects every non-empty edge, at least the minimum hitting-set size and at
\* most the number of non-empty edges, and "objective <= count" neither makes the
\* exact model infeasible nor excludes the optimum.
GreedyTerminatesWithBound ==
    /\ [][(pc = "loop" /\ g_size' # g_size) => Len(uncovered') < Len(uncovered)]_vars
    /\ [](GreedyCountIsBound)
    /\ <>(GreedyReturned)

\* The greedy loop returned after four rounds on a list whose minimum is 3.
GreedyAboveMinimum ==
    /\ GreedyReturned /\ g_size = 4
    /\ MinHittingSetSize(GreedyEdges, UNION Range(GreedyEdges)) = 3

----------------------------------------------------------------------------
\* Claims about exact_shapley and the orderings of the universe (under SpecShap).

\* The number of orderings of the universe in which t is the element whose addition
\* first makes the running coalition meet every witness set: the orderings on which
\* approx_shapley's walk credits t.
PivotalOrderings(t) ==
    Cardinality({perm \in Perms(0..(shap_n - 1)) :
        Walk(perm, 1, support_sets_to_masks(shap_sets, shap_n),
             [coalition_mask |-> 0, vC |-> 0, credited |-> <<>>, steps |-> 0]).credited
            = <<t>>})

\* The double of the fraction of the n! orderings that are pivotal for t.
OrderingFraction(t) == FloatDiv(PivotalOrderings(t), Fact(shap_n))

\* C26 as stated: the value exact_shapley returns for t equals the fraction of the n!
\* orderings of the universe in which t is the first element to complete a hit of
\* every witness set.
ExactEqualsOrderingFraction ==
    ExactFinished => \A t \in 0..(shap_n - 1) : phi[t + 1] = OrderingFraction(t)

\* C26, amended: the value exact_shapley returns for t equals that fraction up to the
\* rounding of its float sum: it differs from the fraction's double by less than 2^-30.
ExactNearOrderingFraction ==
    ExactFinished => \A t \in 0..(shap_n - 1) : DyClose(phi[t + 1], OrderingFraction(t))

\* exact_shapley finished the answer of four tuples: tuple 0 is pivotal in 14 of the
\* 24 orderings, and the value returned for it is near the double of 14/24 and is not it.
ExactOrderingWitness ==
    /\ ExactFinished /\ shap_n = 4
    /\ PivotalOrderings(0) = 14
    /\ DyClose(phi[1], OrderingFraction(0))
    /\ phi[1] # OrderingFraction(0)

----------------------------------------------------------------------------
\* Claims that compare the RIM path with the ICQA responsibility path (under SpecRim).

\* What compute_resp_for_query computes for tuple t when the MIS list of the RIM run
\* is the answer's family of support sets: the tuples numbered in some order, the
\* index sets, the SAT search and rho = 1 / (1 + h_star).
RespRhoOfFamily(t) ==
    LET ut == SortedValues(universe, [tk \in universe |-> tk])
        ss == SupportSets(mis_list, Tid2Idx(ut))
    IN  RespRho(min_hitting_set_size_for_t(ss, Len(ut), Tid2Idx(ut)[t]))

\* The RIM result of t is exact.
RimExact(t) == gamma_details[t].status \in {"OPTIMAL", "TRIVIAL"}

\* C27: for the same family of non-empty witness sets, the rho(t) of the RIM path
\* (filtered edges, greedy bound, CP-SAT ending OPTIMAL or TRIVIAL) equals the rho(t)
\* of the ICQA responsibility path (SAT search over k = 0, 1, ..., n) for every
\* universe element t.
RimRhoEqualsRespRho ==
    (unit = "rim" /\ \A i \in DOMAIN mis_list : mis_list[i] # {}) =>
        \A t \in DOMAIN rho : RimExact(t) => rho[t] = RespRhoOfFamily(t)

\* A finished RIM run on non-empty witness sets with an OPTIMAL tuple of rho 1/3, an
\* OPTIMAL tuple of rho 1/2 or 1/4 and no inexact tuple.
RimRespWitness ==
    /\ unit = "rim" /\ pc = "done" /\ \A i \in DOMAIN mis_list : mis_list[i] # {}
    /\ \A t \in DOMAIN rho : RimExact(t)
    /\ \E t \in DOMAIN rho : gamma_details[t].status = "OPTIMAL" /\ rho[t] = Frac(1, 3)
    /\ \E t \in DOMAIN rho : gamma_details[t].status = "OPTIMAL" /\ rho[t] # Frac(1, 3)

\* The same without the condition on the witness sets (not a claim's formula): an
\* empty MIS is dropped by both paths.
RimRhoEqualsRespRhoAnyList ==
    unit = "rim" => \A t \in DOMAIN rho : RimExact(t) => rho[t] = RespRhoOfFamily(t)

----------------------------------------------------------------------------
\* Claims about the rows of the three outputs (under SpecScores).

\* The answers of the witness-set store.
StoreAnswers == {r.answer_id : r \in support_df}

\* The answers shap main selects for its task list from the prov output of the same
\* store and measure table: those with a row whose CBM score is not null.
ProvTaskAnswers ==
    LET ms == Measured(support_df, tm_db)
    IN  IF ms = {} THEN {}
        ELSE {a \in DOMAIN SumWide(ms) : SumWide(ms)[a]["CBM"] # {}}

\* The aggregator is done; a Shapley run is one whose task list is what the prov
\* stage gives for its store.
ScoresWritten ==
    /\ unit \in {"prov", "respmain", "shapmain"} /\ pc = "done"
    /\ unit = "shapmain" => Range(tasks) = ProvTaskAnswers

RowsOf(a) == {i \in DOMAIN ScoreRows : ScoreRows[i].answer_id = a}

\* C28: every answer that occurs in the witness-set store receives exactly one row in
\* each of the three outputs (prov, resp, shap): none is dropped for want of matching
\* measure rows, the Shapley stage scores the answers of the store, and no answer
\* has two rows.
EveryAnswerOneRow ==
    ScoresWritten =>
        /\ \A a \in StoreAnswers : Cardinality(RowsOf(a)) = 1
        /\ \A i \in DOMAIN ScoreRows : Cardinality(RowsOf(ScoreRows[i].answer_id)) = 1

\* The half that holds: no answer has two rows, and every row is an answer's.
NoAnswerTwice ==
    ScoresWritten =>
        \A i \in DOMAIN ScoreRows :
            /\ Cardinality(RowsOf(ScoreRows[i].answer_id)) = 1
            /\ unit # "shapmain" => ScoreRows[i].answer_id \in StoreAnswers

\* An answer of the store without a row beside an answer with its row, ...
AnswerDropped(u) ==
    /\ ScoresWritten /\ unit = u
    /\ \E a, b \in StoreAnswers : RowsOf(a) = {} /\ RowsOf(b) # {}

\* ... in the prov output, ...
ProvAnswerDropped == AnswerDropped("prov")

\* ... in the Shapley output; ...
ShapAnswerDropped == AnswerDropped("shapmain")

\* ... the resp output has no row at all when the database has no measure rows.
RespDatabaseDropped ==
    ScoresWritten /\ unit = "respmain" /\ StoreAnswers # {} /\ resp_rows = <<>>

----------------------------------------------------------------------------
\* Claims that compare the weighted scores with the provenance sum (under SpecScores).

\* The cell of the prov output for answer a and kind m on the same tables: {sum}, or
\* {} where the output has NaN, no score column or no row for the answer.
ProvCell(a, m) ==
    LET ms == Measured(support_df, tm_db)
    IN  IF ms = {} THEN {}
        ELSE IF a \notin DOMAIN SumWide(ms) THEN {}
        ELSE SumWide(ms)[a][m]

\* C29: for every answer and measure kind (the measures are non-negative, one row per
\* tuple and kind), the responsibility-weighted and the Shapley-weighted score are each
\* at most the provenance-sum score of the same answer and kind, and all are >= 0.
WeightedScoreBelowProv ==
    AggDone =>
        \A i \in DOMAIN AggRows : \A m \in Range(MEASURES) :
            LET cell == ProvCell(AggRows[i].answer_id, m)
            IN  /\ cell # {}
                /\ \A p \in cell : p >= 0 /\ ~DyLess(DoubleOf(p), AggRows[i].icqa[m])

\* Where the prov output holds a number for the answer and the kind, the weighted
\* score is at most that number (not a claim's formula).
WeightedScoreBelowProvNumber ==
    AggDone =>
        \A i \in DOMAIN AggRows : \A m \in Range(MEASURES) :
            \A p \in ProvCell(AggRows[i].answer_id, m) :
                p >= 0 /\ ~DyLess(DoubleOf(p), AggRows[i].icqa[m])

\* A weighted score of 0 for a kind whose prov cell is NaN, beside a kind of the same
\* answer whose weighted score is positive and at most the prov sum.
WeightedScoreAgainstNaN ==
    /\ AggDone
    /\ \E i \in DOMAIN AggRows : \E m, k \in Range(MEASURES) :
          LET a == AggRows[i].answer_id
          IN  /\ a \in DOMAIN SumWide(Measured(support_df, tm_db))
              /\ ProvCell(a, m) = {} /\ AggRows[i].icqa[m] = DyZero
              /\ \E p \in ProvCell(a, k) :
                    DyLess(DyZero, AggRows[i].icqa[k]) /\ ~DyLess(DoubleOf(p), AggRows[i].icqa[k])

\* A weighted score that is positive and strictly below the prov sum of the kind.
WeightedScoreStrictlyBelow ==
    /\ AggDone
    /\ \E i \in DOMAIN AggRows : \E k \in Range(MEASURES) :
          \E p \in ProvCell(AggRows[i].answer_id, k) :
              DyLess(DyZero, AggRows[i].icqa[k]) /\ DyLess(AggRows[i].icqa[k], DoubleOf(p))

----------------------------------------------------------------------------
\* Claims about the transparency of the cache (under SpecRim).

\* Every solver call of the run so far ended OPTIMAL, or was not made (TRIVIAL).
AllCallsExact ==
    \A t \in DOMAIN solver_log : solver_log[t].cp_status \in {"OPTIMAL", "NOT_CALLED"}

\* What the iteration of t records when it runs greedy and the solver itself, as every
\* iteration does with enable_cache = False, and the solver ends OPTIMAL or TRIVIAL.
UncachedResults(t) ==
    LET filtered == FilteredEdges(t)
    IN  {GammaResult(r[1], r[2], filtered) :
            r \in UNION {{solve_min_hitting_set_size_cpsat(filtered, {ub}, o) :
                            o \in {x \in CallOutcomes(filtered, {ub}) :
                                      x.status \in {"OPTIMAL", "NOT_CALLED"}}} :
                         ub \in greedy_hitting_set_size(filtered)}}

\* The contributions returned from those results (lines 196-203).
UncachedContrib ==
    LET rho0 == [t \in universe |-> RhoOf((CHOOSE r \in UncachedResults(t) : TRUE).gamma)]
        denom == FracSum(universe, rho0)
    IN  IF denom.num <= 0 THEN <<>>
        ELSE [t \in universe |-> FracMul(FracDiv(rho0[t], denom), FracInt(Len(mis_list)))]

\* C30: the cache is transparent: whenever every solver call ends OPTIMAL or TRIVIAL,
\* compute_rim_for_dc records for every tuple the gamma and status, and returns the
\* contributions, that the run without cache gives, in whatever order the universe is
\* processed.
CacheIsTransparent ==
    (unit = "rim" /\ pc \in {"loop", "done"} /\ Len(mis_list) > 0 /\ AllCallsExact) =>
        /\ \A t \in DOMAIN rho :
              /\ UncachedResults(t) = {gamma_details[t]}
              /\ rho[t] = RhoOf(gamma_details[t].gamma)
        /\ pc = "done" => rim_contrib = UncachedContrib

\* A finished run with the cache enabled and exact calls only, in which one tuple was
\* served from the cache a gamma of 1 or more and another ran the solver.
CacheTransparentWitness ==
    /\ unit = "rim" /\ pc = "done" /\ enable_cache /\ AllCallsExact
    /\ rim_contrib # <<>>
    /\ \E t \in DOMAIN rho : ~RimSolvedFor(t) /\ gamma_details[t].gamma >= 1
    /\ \E t \in DOMAIN rho : RimSolvedFor(t) /\ gamma_details[t].status = "OPTIMAL"

====
